---- MODULE Spec2Model ----
(***************************************************************************)
(* A model of the URB capture engine of src/urb_capture.py: the capability *)
(* gate, the trace session controller that drives logman, the real-time    *)
(* capture worker and its start/stop concurrency control.                  *)
(*                                                                         *)
(* Threads are the callers of the public API, the worker threads that      *)
(* start_realtime_capture spawns and the threading.Timer of a timed        *)
(* start_etw_capture.  The operating system is the one trace session of    *)
(* the engine's fixed name, the files, the wall clock and the trace        *)
(* provider that appends events to the file of the active session.         *)
(*                                                                         *)
(* Time: no step has an upper bound on its duration, so a wait (sleep,     *)
(* join timeout, Timer) is bounded from below only.  The worker counts the *)
(* sleeps it has completed since it read last_parse_time; a bounded wait   *)
(* of another thread may end at any moment after it has begun.             *)
(***************************************************************************)
EXTENDS Integers, Sequences, FiniteSets, TLC

(* ------------------------------ bounds -------------------------------- *)
NumCaptures == 2
NumCallers == 2
MaxWorkers == 2
NumKeys == 2
MaxDuration == 1
(* What the environment does in one run: the number of API calls, the     *)
(* number of events the trace provider writes, the number of URBCapture   *)
(* objects in use and the capture modes called.  Many calls go with few   *)
(* events.                                                                *)
MaxCalls == 3
MaxEvents == 3
Scenarios ==
    {[calls |-> MaxCalls, events |-> 0, captures |-> 1, apis |-> {"rt"}],
     [calls |-> MaxCalls - 1, events |-> 1, captures |-> 1, apis |-> {"rt"}],
     [calls |-> 1, events |-> MaxEvents, captures |-> 1, apis |-> {"rt"}],
     [calls |-> MaxCalls - 1, events |-> 0, captures |-> NumCaptures,
      apis |-> {"rt", "etw"}],
     [calls |-> MaxCalls, events |-> 0, captures |-> 1, apis |-> {"etw"}],
     [calls |-> MaxCalls - 1, events |-> 0, captures |-> 1,
      apis |-> {"gate", "etw"}]}

(* ------------------------- program constants -------------------------- *)
PollInterval == 2
ReparseInterval == 5

Captures == 1..NumCaptures
Callers == 1..NumCallers
Workers == 1..MaxWorkers

NoWorker == 0
NoSink == 0
NoTs == -1
EventTs == 0
NoPath == <<"none", 0>>

(* An event of the trace file as the worker's key sees it: k stands for    *)
(* (device id, endpoint address, requested length), ts for the event's     *)
(* timestamp attribute, NoTs when the event carries none.                  *)
Events == [k : 1..NumKeys, ts : {NoTs, EventTs}]

(* What one run of the external tool can do: exit 0, exit non-zero, or     *)
(* fail to run to completion (TimeoutExpired, FileNotFoundError).          *)
ToolOutcomes == {"ok", "nonzero", "raise"}

VARIABLES
    budget, is_windows, is_admin, logman_available, ncaps,
    realtime_running, realtime_callback, realtime_thread, realtime_lock,
    trace_file,
    cpc, call, cret, ncalls, warnings,
    wpc, wcap, wl, sent,
    session, files, sec, nevents, timers

(* One call of parse_etl_file: its argument and the disk, the outcomes of  *)
(* what it calls (penv), its position, its locals and its result.         *)
VARIABLES
    etl_file, disk, etl_events, penv,
    ppc, pnext, purbs, xml_file, pending, presult, plist, plog, pclock

parseVars == <<etl_file, disk, etl_events, penv, ppc, pnext, purbs, xml_file,
               pending, presult, plist, plog, pclock>>

(* What no capture operation writes: the environment and the parse call. *)
envVars == <<budget, is_windows, is_admin, logman_available, parseVars>>
capVars == <<ncaps, realtime_running, realtime_callback, realtime_thread,
             realtime_lock, trace_file>>
callerVars == <<cpc, call, cret, ncalls, warnings>>
workerVars == <<wpc, wcap, wl, sent>>
osVars == <<session, files, sec, nevents, timers>>
vars == <<envVars, capVars, callerVars, workerVars, osVars>>

NoCall ==
    [api |-> "none", op |-> "none", id |-> 0, cap |-> 1, dur |-> 0, out |-> NoPath,
     thr |-> NoWorker, cmds |-> <<>>]

(* The locals of _realtime_worker.  waited is the time since             *)
(* last_parse_time was read, time.time() - last_parse_time, in seconds;   *)
(* the values above ReparseInterval are kept as ReparseInterval + 1.      *)
(* npass counts the parse passes.  exc,                                   *)
(* stop_issued, remove_tried and cancelled record what happened to the    *)
(* worker, exc where an exception was raised ("none", "makedirs" or       *)
(* "callback"); sess_ok is the result of _start_etw_session.  cmds, here *)
(* and in a call, lists the logman commands run so far, in order.         *)
NoLocals ==
    [temp_trace |-> NoPath, sess_ok |-> FALSE, last_size |-> 0, waited |-> 0,
     cur_size |-> 0, npass |-> 0, seen |-> {}, batch |-> <<>>, exc |-> "none",
     stop_issued |-> FALSE, remove_tried |-> FALSE, cancelled |-> FALSE,
     cmds |-> <<>>]

NoSession == [active |-> FALSE, path |-> NoPath, owner |-> <<"none", 0>>]

(* The state after the first URBCapture is constructed (__init__).        *)
(* No parse_etl_file call is made. *)
NoParse ==
    /\ etl_file = ""
    /\ disk = <<>>
    /\ etl_events = <<>>
    /\ penv = <<>>
    /\ ppc = "idle"
    /\ pnext = 0
    /\ purbs = <<>>
    /\ xml_file = ""
    /\ pending = "none"
    /\ presult = "none"
    /\ plist = <<>>
    /\ plog = {}
    /\ pclock = 0

(* A constructed URBCapture and its environment. *)
Constructed ==
    /\ budget \in Scenarios
    /\ is_windows \in BOOLEAN
    /\ is_admin \in BOOLEAN
    /\ logman_available \in BOOLEAN
    /\ ncaps = 1
    /\ realtime_running = [i \in Captures |-> FALSE]
    /\ realtime_callback = [i \in Captures |-> NoSink]
    /\ realtime_thread = [i \in Captures |-> NoWorker]
    /\ realtime_lock = [i \in Captures |-> 0]
    /\ trace_file = [i \in Captures |-> NoPath]
    /\ cpc = [c \in Callers |-> "idle"]
    /\ call = [c \in Callers |-> NoCall]
    /\ cret = [c \in Callers |-> "none"]
    /\ ncalls = 0
    /\ warnings = <<>>
    /\ wpc = [w \in Workers |-> "unborn"]
    /\ wcap = [w \in Workers |-> 1]
    /\ wl = [w \in Workers |-> NoLocals]
    /\ sent = [w \in Workers |-> <<>>]
    /\ session = NoSession
    /\ files = <<>>
    /\ sec = 0
    /\ nevents = 0
    /\ timers = {}

Init == Constructed /\ NoParse

(* ------------------------------ files --------------------------------- *)
Exists(p) == p \in DOMAIN files

WithFile(p, content) ==
    [q \in (DOMAIN files) \cup {p} |-> IF q = p THEN content ELSE files[q]]

WithoutFile(p) == [q \in (DOMAIN files) \ {p} |-> files[q]]

GetSize(p) == Len(files[p])

(* ------------------------- the capability gate ------------------------ *)
(* is_available without the check of the elevation. *)
AvailableWithoutAdmin == is_windows /\ logman_available

(* lines 173-182: the three checks in their order; each returns False on  *)
(* failing, after its warning.                                            *)
is_available == is_windows /\ is_admin /\ logman_available

(* GateWarning with the elevation checked first. *)
GateWarningAdminFirst ==
    IF ~is_admin THEN "admin" ELSE IF ~is_windows THEN "windows" ELSE "logman"

(* The warning of the check that returns False: lines 174, 177, 180. *)
GateWarning ==
    IF ~is_windows THEN "windows" ELSE IF ~is_admin THEN "admin" ELSE "logman"

(* --------------------- the external tool: logman ---------------------- *)
(* One trace session exists under the engine's fixed session_name         *)
(* ("USB-Forensics-URB-Trace"), whichever URBCapture issued the command.  *)
(* A stop or a delete that runs to completion removes the session when    *)
(* there is one and exits non-zero when there is none; a create that runs *)
(* to completion starts the session when the name is free and exits       *)
(* non-zero when a session of that name exists.                           *)
LogmanExit(o, possible) ==
    IF o = "raise" THEN "raise"
    ELSE IF o = "ok" /\ possible THEN "ok" ELSE "nonzero"

SessionAfterStop(o) ==
    IF LogmanExit(o, session.active) = "ok" THEN NoSession ELSE session

SessionAfterDelete(o) ==
    IF LogmanExit(o, session.active) = "ok" THEN NoSession ELSE session

SessionAfterCreate(o, p, who) ==
    IF LogmanExit(o, ~session.active) = "ok"
    THEN [active |-> TRUE, path |-> p, owner |-> who]
    ELSE session

FilesAfterCreate(o, p) ==
    IF LogmanExit(o, ~session.active) = "ok" THEN WithFile(p, <<>>) ELSE files

(* ----------------------------- the clock ------------------------------ *)
(* A generated file name carries the wall clock at second resolution      *)
(* (lines 445 and 615).  sec is the second of the latest name, 0 before   *)
(* the first; the next name is taken in that second still (fresh = FALSE) *)
(* or in a later one.                                                     *)
SecondOf(fresh) == IF fresh \/ sec = 0 THEN sec + 1 ELSE sec

(* ----------------------------- callers -------------------------------- *)
Return(c, value) ==
    /\ cpc' = [cpc EXCEPT ![c] = "idle"]
    /\ cret' = [cret EXCEPT ![c] = value]
    /\ UNCHANGED warnings

Goto(c, label) ==
    /\ cpc' = [cpc EXCEPT ![c] = label]
    /\ UNCHANGED <<cret, warnings>>

(* The gate denies: its warning is logged and the caller returns value. *)
Denied(c, value) ==
    /\ cpc' = [cpc EXCEPT ![c] = "idle"]
    /\ cret' = [cret EXCEPT ![c] = value]
    /\ warnings' = Append(warnings, GateWarning)

(* A call is made on a constructed URBCapture or on one constructed for   *)
(* the call (gui_enhanced.py line 1177, urb_capture.py lines 734, 740).   *)
(* Idle callers are interchangeable: the first of them makes the call.    *)
BeginCall(c, rec) ==
    /\ cpc[c] = "idle"
    /\ \A d \in Callers : d < c => cpc[d] # "idle"
    /\ ncalls < budget.calls
    /\ rec.cap <= ncaps + 1
    /\ rec.cap <= budget.captures
    /\ rec.api \in budget.apis
    /\ ncaps' = IF rec.cap > ncaps THEN rec.cap ELSE ncaps
    /\ ncalls' = ncalls + 1
    /\ call' = [call EXCEPT ![c] = [rec EXCEPT !.id = ncalls + 1]]

InStart(c) == cpc[c] \in {"sr_check", "sr_setrun", "sr_mkthread"}

Unborn == {w \in Workers : wpc[w] = "unborn"}

(* start_realtime_capture, lines 559-560: the capability gate. *)
StartRealtimeCall(c, i) ==
    /\ Cardinality(Unborn) > Cardinality({d \in Callers : InStart(d)})
    /\ BeginCall(c, [NoCall EXCEPT !.api = "rt", !.op = "start", !.cap = i])
    /\ IF is_available THEN Goto(c, "sr_check") ELSE Denied(c, "False")
    /\ UNCHANGED <<envVars, realtime_running, realtime_callback, realtime_thread,
                   realtime_lock, trace_file, workerVars, osVars>>

(* StartCheck with the callback stored before the check. *)
StartCheckStoringFirst(c) ==
    /\ cpc[c] = "sr_check"
    /\ realtime_lock[call[c].cap] = 0
    /\ realtime_callback' = [realtime_callback EXCEPT ![call[c].cap] = call[c].id]
    /\ IF realtime_running[call[c].cap]
       THEN /\ Return(c, "False")
            /\ UNCHANGED realtime_lock
       ELSE /\ realtime_lock' = [realtime_lock EXCEPT ![call[c].cap] = c]
            /\ Goto(c, "sr_setrun")
    /\ UNCHANGED <<envVars, ncaps, realtime_running, realtime_thread, trace_file,
                   call, ncalls, workerVars, osVars>>

(* StartCheck without the lock: the check and the set are two steps that  *)
(* exclude nobody.                                                        *)
StartCheckUnlocked(c) ==
    /\ cpc[c] = "sr_check"
    /\ IF realtime_running[call[c].cap]
       THEN /\ Return(c, "False")
            /\ UNCHANGED realtime_callback
       ELSE /\ realtime_callback' =
                    [realtime_callback EXCEPT ![call[c].cap] = call[c].id]
            /\ Goto(c, "sr_setrun")
    /\ UNCHANGED <<envVars, ncaps, realtime_running, realtime_thread, trace_file,
                   realtime_lock, call, ncalls, workerVars, osVars>>

(* lines 562-567: the lock is taken and realtime_running checked; when    *)
(* the capture is running the call returns False, else the callback is    *)
(* stored.  The sink a call passes is named by the call's number.         *)
StartCheck(c) ==
    /\ cpc[c] = "sr_check"
    /\ realtime_lock[call[c].cap] = 0
    /\ IF realtime_running[call[c].cap]
       THEN /\ Return(c, "False")
            /\ UNCHANGED <<realtime_callback, realtime_lock>>
       ELSE /\ realtime_callback' =
                    [realtime_callback EXCEPT ![call[c].cap] = call[c].id]
            /\ realtime_lock' = [realtime_lock EXCEPT ![call[c].cap] = c]
            /\ Goto(c, "sr_setrun")
    /\ UNCHANGED <<envVars, ncaps, realtime_running, realtime_thread, trace_file,
                   call, ncalls, workerVars, osVars>>

(* line 568 and the end of the with block. *)
StartSetRunning(c) ==
    /\ cpc[c] = "sr_setrun"
    /\ realtime_running' = [realtime_running EXCEPT ![call[c].cap] = TRUE]
    /\ realtime_lock' = [realtime_lock EXCEPT ![call[c].cap] = 0]
    /\ Goto(c, "sr_mkthread")
    /\ UNCHANGED <<envVars, ncaps, realtime_callback, realtime_thread, trace_file,
                   call, ncalls, workerVars, osVars>>

(* lines 579-583: the Thread object is created and stored, not yet started. *)
StartMakeThread(c) ==
    /\ cpc[c] = "sr_mkthread"
    /\ LET w == CHOOSE x \in Unborn : \A y \in Unborn : x <= y
       IN /\ realtime_thread' = [realtime_thread EXCEPT ![call[c].cap] = w]
          /\ wpc' = [wpc EXCEPT ![w] = "created"]
          /\ wcap' = [wcap EXCEPT ![w] = call[c].cap]
          /\ call' = [call EXCEPT ![c].thr = w]
    /\ Goto(c, "sr_startthr")
    /\ UNCHANGED <<envVars, ncaps, realtime_running, realtime_callback,
                   realtime_lock, trace_file, ncalls, wl, sent, osVars>>

(* lines 584-587: Thread.start(), return True. *)
StartThread(c) ==
    /\ cpc[c] = "sr_startthr"
    /\ wpc' = [wpc EXCEPT ![call[c].thr] = "w_init"]
    /\ Return(c, "True")
    /\ UNCHANGED <<envVars, capVars, call, ncalls, wcap, wl, sent, osVars>>

(* stop_realtime_capture, line 589. *)
StopRealtimeCall(c, i) ==
    /\ BeginCall(c, [NoCall EXCEPT !.api = "rt", !.op = "stop", !.cap = i])
    /\ Goto(c, "st_check")
    /\ UNCHANGED <<envVars, realtime_running, realtime_callback, realtime_thread,
                   realtime_lock, trace_file, workerVars, osVars>>

(* lines 591-595, the whole with block.  wl[w].cancelled records, for the *)
(* workers of the capture that have not ended, that it was stopped.       *)
StopCheck(c) ==
    /\ cpc[c] = "st_check"
    /\ realtime_lock[call[c].cap] = 0
    /\ IF ~realtime_running[call[c].cap]
       THEN /\ Return(c, "False")
            /\ UNCHANGED <<realtime_running, wl>>
       ELSE /\ realtime_running' = [realtime_running EXCEPT ![call[c].cap] = FALSE]
            /\ wl' = [w \in Workers |->
                        IF wcap[w] = call[c].cap /\ wpc[w] \notin {"unborn", "w_done"}
                        THEN [wl[w] EXCEPT !.cancelled = TRUE] ELSE wl[w]]
            /\ Goto(c, "st_join")
    /\ UNCHANGED <<envVars, ncaps, realtime_callback, realtime_thread,
                   realtime_lock, trace_file, call, ncalls, wpc, wcap, sent, osVars>>

(* lines 597-598: self.realtime_thread is read and joined.  Thread.join   *)
(* raises RuntimeError for a thread that was not started yet.             *)
StopJoin(c) ==
    /\ cpc[c] = "st_join"
    /\ LET t == realtime_thread[call[c].cap]
       IN IF t = NoWorker
          THEN Return(c, "True") /\ UNCHANGED call
          ELSE IF wpc[t] = "created"
          THEN Return(c, "raised") /\ UNCHANGED call
          ELSE /\ call' = [call EXCEPT ![c].thr = t]
               /\ Goto(c, "st_wait")
    /\ UNCHANGED <<envVars, capVars, ncalls, workerVars, osVars>>

(* join(timeout=5.0) returns when the thread has ended or the timeout has *)
(* passed (timeout = TRUE); lines 600-601.                                *)
StopWait(c, timeout) ==
    /\ cpc[c] = "st_wait"
    /\ wpc[call[c].thr] = "w_done" \/ timeout
    /\ Return(c, "True")
    /\ UNCHANGED <<envVars, capVars, call, ncalls, workerVars, osVars>>

(* is_available called by itself, lines 171-182. *)
IsAvailableCall(c, i) ==
    /\ BeginCall(c, [NoCall EXCEPT !.api = "gate", !.op = "check", !.cap = i])
    /\ IF is_available THEN Return(c, "True") ELSE Denied(c, "False")
    /\ UNCHANGED <<envVars, realtime_running, realtime_callback, realtime_thread,
                   realtime_lock, trace_file, workerVars, osVars>>

(* start_etw_capture, lines 441-463: the gate, the generated output path  *)
(* (second resolution), the directory creation and self.trace_file.       *)
StartEtwCall(c, i, dur, mk, fresh) ==
    /\ BeginCall(c, [NoCall EXCEPT !.api = "etw", !.op = "start", !.cap = i,
                                   !.dur = dur,
                                   !.out = IF ~is_available \/ mk = "fail"
                                           THEN NoPath
                                           ELSE <<"etw", SecondOf(fresh)>>])
    /\ IF ~is_available \/ mk = "fail"
       THEN /\ IF is_available THEN Return(c, "None") ELSE Denied(c, "None")
            /\ ~fresh
            /\ UNCHANGED <<trace_file, sec>>
       ELSE /\ trace_file' = [trace_file EXCEPT ![i] = <<"etw", SecondOf(fresh)>>]
            /\ sec' = SecondOf(fresh)
            /\ Goto(c, "es_stop")
    /\ UNCHANGED <<envVars, realtime_running, realtime_callback, realtime_thread,
                   realtime_lock, workerVars, session, files, nevents, timers>>

(* lines 466-477: stop any existing session, failures swallowed. *)
EtwPreStop(c, o) ==
    /\ cpc[c] = "es_stop"
    /\ session' = SessionAfterStop(o)
    /\ call' = [call EXCEPT ![c].cmds = Append(@, "stop")]
    /\ Goto(c, "es_create")
    /\ UNCHANGED <<envVars, capVars, ncalls, workerVars, files, sec,
                   nevents, timers>>

(* lines 487-524: create; on exit 0 the Timer of a timed capture is       *)
(* started and the path returned; on a non-zero exit the cleanup follows; *)
(* a timeout or a spawn failure returns None.                             *)
EtwCreate(c, o) ==
    /\ cpc[c] = "es_create"
    /\ session' = SessionAfterCreate(o, call[c].out, <<"caller", call[c].id>>)
    /\ files' = FilesAfterCreate(o, call[c].out)
    /\ LET exit == LogmanExit(o, ~session.active)
       IN /\ IF exit = "ok" THEN Return(c, "path")
             ELSE IF exit = "nonzero" THEN Goto(c, "es_cleanup")
             ELSE Return(c, "None")
          /\ timers' = IF exit = "ok" /\ call[c].dur > 0
                       THEN timers \cup {[id |-> call[c].id, cap |-> call[c].cap,
                                          after |-> call[c].dur,
                                          left |-> call[c].dur]}
                       ELSE timers
    /\ call' = [call EXCEPT ![c].cmds = Append(@, "create")]
    /\ UNCHANGED <<envVars, capVars, ncalls, workerVars, sec, nevents>>

(* EtwCleanup letting the failure of the delete out. *)
EtwCleanupRaising(c, o) ==
    /\ cpc[c] = "es_cleanup"
    /\ session' = SessionAfterDelete(o)
    /\ call' = [call EXCEPT ![c].cmds = Append(@, "delete")]
    /\ Return(c, IF o = "raise" THEN "raised" ELSE "None")
    /\ UNCHANGED <<envVars, capVars, ncalls, workerVars, files, sec,
                   nevents, timers>>

(* lines 497-505: the delete after a create that exited non-zero, its own *)
(* failure swallowed by the bare except, then return None.                *)
EtwCleanup(c, o) ==
    /\ cpc[c] = "es_cleanup"
    /\ session' = SessionAfterDelete(o)
    /\ call' = [call EXCEPT ![c].cmds = Append(@, "delete")]
    /\ Return(c, "None")
    /\ UNCHANGED <<envVars, capVars, ncalls, workerVars, files, sec,
                   nevents, timers>>

(* StopEtwCall returning True whenever the tool ran to completion. *)
StopEtwCallIgnoringExit(c, i, o) ==
    /\ BeginCall(c, [NoCall EXCEPT !.api = "etw", !.op = "stop", !.cap = i,
                                   !.cmds = <<"stop">>])
    /\ session' = SessionAfterStop(o)
    /\ Return(c, IF o # "raise" THEN "True" ELSE "False")
    /\ UNCHANGED <<envVars, realtime_running, realtime_callback, realtime_thread,
                   realtime_lock, trace_file, workerVars, files, sec,
                   nevents, timers>>

(* stop_etw_capture, lines 526-543. *)
StopEtwCall(c, i, o) ==
    /\ BeginCall(c, [NoCall EXCEPT !.api = "etw", !.op = "stop", !.cap = i,
                                   !.cmds = <<"stop">>])
    /\ session' = SessionAfterStop(o)
    /\ Return(c, IF LogmanExit(o, session.active) = "ok" THEN "True" ELSE "False")
    /\ UNCHANGED <<envVars, realtime_running, realtime_callback, realtime_thread,
                   realtime_lock, trace_file, workerVars, files, sec,
                   nevents, timers>>

(* A second passes: the seconds left to the timers that wait. *)
Tick ==
    /\ \E t \in timers : t.left > 0
    /\ timers' = {[t EXCEPT !.left = IF @ > 0 THEN @ - 1 ELSE 0] : t \in timers}
    /\ UNCHANGED <<envVars, capVars, callerVars, workerVars, session, files, sec,
                   nevents>>

(* TimerFire without the wait. *)
TimerFireAtOnce(t, o) ==
    /\ t \in timers
    /\ timers' = timers \ {t}
    /\ session' = SessionAfterStop(o)
    /\ UNCHANGED <<envVars, capVars, callerVars, workerVars, files, sec,
                   nevents>>

(* line 512: the Timer thread runs stop_etw_capture once its time has     *)
(* come: t.after seconds after it was started, or later.                  *)
TimerFire(t, o) ==
    /\ t \in timers
    /\ t.left = 0
    /\ timers' = timers \ {t}
    /\ session' = SessionAfterStop(o)
    /\ UNCHANGED <<envVars, capVars, callerVars, workerVars, files, sec,
                   nevents>>

(* ------------------------------ workers ------------------------------- *)
WGoto(w, label) == wpc' = [wpc EXCEPT ![w] = label]

(* _realtime_worker, lines 606-616: the temp path and its directory; a    *)
(* failing os.makedirs is outside the inner try.                          *)
WorkerInit(w, mk, fresh) ==
    /\ wpc[w] = "w_init"
    /\ IF mk = "fail"
       THEN /\ ~fresh
            /\ wl' = [wl EXCEPT ![w].exc = "makedirs"]
            /\ WGoto(w, "w_except")
            /\ UNCHANGED sec
       ELSE /\ wl' = [wl EXCEPT ![w].temp_trace = <<"rt", SecondOf(fresh)>>]
            /\ sec' = SecondOf(fresh)
            /\ WGoto(w, "w_sess_stop")
    /\ UNCHANGED <<envVars, capVars, callerVars, wcap, sent, session, files,
                   nevents, timers>>

(* _start_etw_session, lines 664-671. *)
SessionPreStop(w, o) ==
    /\ wpc[w] = "w_sess_stop"
    /\ session' = SessionAfterStop(o)
    /\ wl' = [wl EXCEPT ![w].cmds = Append(@, "stop")]
    /\ WGoto(w, "w_sess_delete")
    /\ UNCHANGED <<envVars, capVars, callerVars, wcap, sent, files, sec,
                   nevents, timers>>

(* lines 674-681. *)
SessionPreDelete(w, o) ==
    /\ wpc[w] = "w_sess_delete"
    /\ session' = SessionAfterDelete(o)
    /\ wl' = [wl EXCEPT ![w].cmds = Append(@, "delete")]
    /\ WGoto(w, "w_sess_create")
    /\ UNCHANGED <<envVars, capVars, callerVars, wcap, sent, files, sec,
                   nevents, timers>>

(* lines 684-700, then 620-624: the result of _start_etw_session is kept  *)
(* here as sess_ok; the worker drops it.                                  *)
SessionCreate(w, o) ==
    /\ wpc[w] = "w_sess_create"
    /\ session' = SessionAfterCreate(o, wl[w].temp_trace, <<"worker", w>>)
    /\ files' = FilesAfterCreate(o, wl[w].temp_trace)
    /\ wl' = [wl EXCEPT ![w].sess_ok = (LogmanExit(o, ~session.active) = "ok"),
                        ![w].last_size = 0,
                        ![w].waited = 0,
                        ![w].seen = {},
                        ![w].cmds = Append(@, "create")]
    /\ WGoto(w, "w_loop")
    /\ UNCHANGED <<envVars, capVars, callerVars, wcap, sent, sec,
                   nevents, timers>>

(* SleptEnough from the interval on. *)
SleptEnoughFromInterval(waited) == waited >= ReparseInterval

(* line 634: current_time - last_parse_time > 5. *)
SleptEnough(waited) == waited > ReparseInterval

(* time.sleep(2) returns after PollInterval seconds or later. *)
SleepTimes == PollInterval..(ReparseInterval + 1)

(* line 626: the loop condition, read without the lock; line 627: the    *)
(* sleep that follows, which took d seconds.                              *)
WorkerLoop(w, d) ==
    /\ wpc[w] = "w_loop"
    /\ IF realtime_running[wcap[w]]
       THEN /\ wl' = [wl EXCEPT ![w].waited = IF @ + d > ReparseInterval
                                              THEN ReparseInterval + 1
                                              ELSE @ + d]
            /\ WGoto(w, "w_poll")
       ELSE /\ d = PollInterval
            /\ wl' = [wl EXCEPT ![w].waited = 0]
            /\ WGoto(w, "w_fin_stop")
    /\ UNCHANGED <<envVars, capVars, callerVars, wcap, sent, osVars>>

(* lines 629-634. *)
ShouldParse(w) ==
    /\ Exists(wl[w].temp_trace)
    /\ GetSize(wl[w].temp_trace) > wl[w].last_size
    /\ SleptEnough(wl[w].waited)

(* lines 629-634: current_time, read at line 633 when the file has grown, *)
(* becomes last_parse_time at line 644 if the file is parsed.             *)
WorkerPoll(w) ==
    /\ wpc[w] = "w_poll"
    /\ IF ShouldParse(w)
       THEN /\ wl' = [wl EXCEPT ![w].cur_size = GetSize(wl[w].temp_trace),
                                ![w].waited = 0]
            /\ WGoto(w, "w_parse")
       ELSE /\ WGoto(w, "w_loop")
            /\ UNCHANGED wl
    /\ UNCHANGED <<envVars, capVars, callerVars, wcap, sent, osVars>>

(* parse_etl_file as the worker uses it: the records of the file's events *)
(* in file order, or [] (file gone, decoder unavailable, read or decode   *)
(* error).  A record's timestamp is the event's, or time.time() at its    *)
(* decoding for an event that carries none (lines 245-248).  The passes   *)
(* of a worker are more than ReparseInterval apart, so the clock of a     *)
(* later pass is later; within a pass it advances from event to event     *)
(* (fine) or not, as the clock's resolution has it.                       *)
ClockAt(pass, j, fine) == pass * (MaxEvents + 1) + (IF fine THEN j ELSE 0)

Decode(f, pass, fine) ==
    [j \in 1..Len(f) |->
        [idx |-> j, k |-> f[j].k,
         ts |-> IF f[j].ts = NoTs THEN ClockAt(pass, j, fine) ELSE f[j].ts]]

ParseEtlFile(p, out, pass, fine) ==
    IF Exists(p) /\ out = "decoded" THEN Decode(files[p], pass, fine) ELSE <<>>

(* lines 644-645. *)
AfterPass(l) ==
    [l EXCEPT !.waited = 0, !.last_size = l.cur_size, !.cur_size = 0,
              !.batch = <<>>]

(* line 635. *)
WorkerParse(w, out, fine) ==
    /\ wpc[w] = "w_parse"
    /\ out = "empty" => ~fine
    /\ LET urbs == ParseEtlFile(wl[w].temp_trace, out, wl[w].npass + 1, fine)
           l1 == [wl[w] EXCEPT !.npass = @ + 1]
       IN IF urbs = <<>>
          THEN /\ wl' = [wl EXCEPT ![w] = AfterPass(l1)]
               /\ WGoto(w, "w_loop")
          ELSE /\ wl' = [wl EXCEPT ![w] = [l1 EXCEPT !.batch = urbs]]
               /\ WGoto(w, "w_deliver")
    /\ UNCHANGED <<envVars, capVars, callerVars, wcap, sent, osVars>>

(* line 639. *)
UrbId(urb) == <<urb.ts, urb.k>>

(* IsNew without the membership test: every record counts as new. *)
IsNewAlways(seen, urb) == TRUE

(* line 640. *)
IsNew(seen, urb) == UrbId(urb) \notin seen

(* line 641. *)
Remember(seen, urb) == seen \cup {UrbId(urb)}

(* lines 637-643, one record of the pass: cb is what the sink does. *)
WorkerDeliver(w, cb) ==
    /\ wpc[w] = "w_deliver"
    /\ LET urb == Head(wl[w].batch)
           rest == Tail(wl[w].batch)
           sink == realtime_callback[wcap[w]]
           new == IsNew(wl[w].seen, urb)
           invoked == new /\ sink # NoSink
           l1 == IF new
                 THEN [wl[w] EXCEPT !.seen = Remember(@, urb)]
                 ELSE wl[w]
       IN /\ cb = "raise" => invoked
          /\ sent' = IF invoked
                     THEN [sent EXCEPT ![w] = Append(@, [urb |-> urb, sink |-> sink])]
                     ELSE sent
          /\ IF cb = "raise"
             THEN /\ wl' = [wl EXCEPT ![w] = [l1 EXCEPT !.exc = "callback", !.batch = <<>>,
                                                        !.cur_size = 0]]
                  /\ WGoto(w, "w_fin_stop")
             ELSE IF rest = <<>>
             THEN /\ wl' = [wl EXCEPT ![w] = AfterPass(l1)]
                  /\ WGoto(w, "w_loop")
             ELSE /\ wl' = [wl EXCEPT ![w] = [l1 EXCEPT !.batch = rest]]
                  /\ WGoto(w, "w_deliver")
    /\ UNCHANGED <<envVars, capVars, callerVars, wcap, osVars>>

(* line 648: _stop_etw_session, lines 702-713. *)
WorkerFinallyStop(w, o) ==
    /\ wpc[w] = "w_fin_stop"
    /\ session' = SessionAfterStop(o)
    /\ wl' = [wl EXCEPT ![w].stop_issued = TRUE,
                        ![w].cmds = Append(@, "stop")]
    /\ WGoto(w, "w_fin_remove")
    /\ UNCHANGED <<envVars, capVars, callerVars, wcap, sent, files, sec,
                   nevents, timers>>

(* The locals of a worker that has left the loop are dead. *)
Ended(l) ==
    [NoLocals EXCEPT !.exc = l.exc,
                     !.stop_issued = l.exc # "none" /\ l.stop_issued]

(* lines 649-653: best effort; the file of an active session is held open *)
(* by the trace provider and os.remove fails on it.                       *)
WorkerFinallyRemove(w) ==
    /\ wpc[w] = "w_fin_remove"
    /\ files' = IF /\ Exists(wl[w].temp_trace)
                   /\ ~(session.active /\ session.path = wl[w].temp_trace)
                THEN WithoutFile(wl[w].temp_trace)
                ELSE files
    /\ wl' = [wl EXCEPT ![w] = IF wl[w].exc # "none"
                                THEN [Ended(wl[w]) EXCEPT !.remove_tried = TRUE]
                                ELSE Ended(wl[w])]
    /\ WGoto(w, IF wl[w].exc # "none" THEN "w_except" ELSE "w_done")
    /\ UNCHANGED <<envVars, capVars, callerVars, wcap, sent, session, sec,
                   nevents, timers>>

(* WorkerExcept without line 657: the flag is left as it is. *)
WorkerExceptKeepingFlag(w) ==
    /\ wpc[w] = "w_except"
    /\ realtime_lock[wcap[w]] = 0
    /\ wl' = [wl EXCEPT ![w] = [NoLocals EXCEPT !.exc = wl[w].exc]]
    /\ WGoto(w, "w_done")
    /\ UNCHANGED <<envVars, capVars, callerVars, wcap, sent, osVars>>

(* lines 655-658. *)
WorkerExcept(w) ==
    /\ wpc[w] = "w_except"
    /\ realtime_lock[wcap[w]] = 0
    /\ realtime_running' = [realtime_running EXCEPT ![wcap[w]] = FALSE]
    /\ wl' = [wl EXCEPT ![w] = [NoLocals EXCEPT !.exc = wl[w].exc]]
    /\ WGoto(w, "w_done")
    /\ UNCHANGED <<envVars, ncaps, realtime_callback, realtime_thread,
                   realtime_lock, trace_file, callerVars, wcap, sent, osVars>>

(* ------------------------- the trace provider ------------------------- *)
(* The provider appends an event to the file of the active session.       *)
EtwWrite(e) ==
    /\ session.active
    /\ Exists(session.path)
    /\ nevents < budget.events
    /\ nevents' = nevents + 1
    /\ files' = WithFile(session.path, Append(files[session.path], e))
    /\ UNCHANGED <<envVars, capVars, callerVars, workerVars, session, sec, timers>>

(* --------------------------- specifications --------------------------- *)
RealtimeStep(c, caps) ==
    \/ \E i \in caps : StartRealtimeCall(c, i)
    \/ StartCheck(c)
    \/ StartSetRunning(c)
    \/ StartMakeThread(c)
    \/ StartThread(c)
    \/ \E i \in caps : StopRealtimeCall(c, i)
    \/ StopCheck(c)
    \/ StopJoin(c)
    \/ \E timeout \in BOOLEAN : StopWait(c, timeout)

EtwStep(c, caps) ==
    \/ \E i \in caps, mk \in {"ok", "fail"}, fresh \in BOOLEAN :
          StartEtwCall(c, i, 0, mk, fresh)
    \/ \E i \in caps, mk \in {"ok", "fail"}, fresh \in BOOLEAN :
          StartEtwCall(c, i, MaxDuration, mk, fresh)
    \/ \E o \in ToolOutcomes : EtwPreStop(c, o)
    \/ \E o \in ToolOutcomes : EtwCreate(c, o)
    \/ \E o \in ToolOutcomes : EtwCleanup(c, o)
    \/ \E i \in caps, o \in ToolOutcomes : StopEtwCall(c, i, o)

WorkerStep(w) ==
    \/ \E mk \in {"ok", "fail"}, fresh \in BOOLEAN : WorkerInit(w, mk, fresh)
    \/ \E o \in ToolOutcomes : SessionPreStop(w, o)
    \/ \E o \in ToolOutcomes : SessionPreDelete(w, o)
    \/ \E o \in ToolOutcomes : SessionCreate(w, o)
    \/ \E d \in SleepTimes : WorkerLoop(w, d)
    \/ WorkerPoll(w)
    \/ \E out \in {"decoded", "empty"}, fine \in BOOLEAN : WorkerParse(w, out, fine)
    \/ \E cb \in {"return", "raise"} : WorkerDeliver(w, cb)
    \/ \E o \in ToolOutcomes : WorkerFinallyStop(w, o)
    \/ WorkerFinallyRemove(w)
    \/ WorkerExcept(w)

Next ==
    \/ \E c \in Callers, i \in Captures : IsAvailableCall(c, i)
    \/ \E c \in Callers : RealtimeStep(c, Captures)
    \/ \E c \in Callers : EtwStep(c, Captures)
    \/ \E w \in Workers : WorkerStep(w)
    \/ \E t \in timers, o \in ToolOutcomes : TimerFire(t, o)
    \/ Tick
    \/ \E e \in Events : EtwWrite(e)

Spec == Init /\ [][Next]_vars

(* The clock advances and a Timer thread whose time has come runs         *)
(* (threading.Timer is a thread of its own, not a daemon: line 512).      *)
SpecTimed ==
    /\ Init /\ [][Next]_vars
    /\ WF_vars(Tick)
    /\ WF_vars(\E t \in timers, o \in ToolOutcomes : TimerFire(t, o))

(* ============================ the decoder ============================= *)
(* Python integers are unbounded.  A status code is written here as a     *)
(* sign and a magnitude hi * 2^16 + lo, lo below 2^16, so that values of  *)
(* 32 bits and more are exact.                                            *)
Limb == 65536

(* A status value: sign and the two 16-bit halves of its magnitude. *)
ZeroStatus == [neg |-> FALSE, hi |-> 0, lo |-> 0]

(* class URBFunction, lines 49-95: the names of the codes 0x0000..0x002c, *)
(* in the order of their codes.                                           *)
URBFunction ==
  <<
     "URB_FUNCTION_SELECT_CONFIGURATION", "URB_FUNCTION_SELECT_INTERFACE",
     "URB_FUNCTION_ABORT_PIPE", "URB_FUNCTION_TAKE_FRAME_LENGTH_CONTROL",
     "URB_FUNCTION_RELEASE_FRAME_LENGTH_CONTROL",
     "URB_FUNCTION_GET_FRAME_LENGTH", "URB_FUNCTION_SET_FRAME_LENGTH",
     "URB_FUNCTION_GET_CURRENT_FRAME_NUMBER",
     "URB_FUNCTION_CONTROL_TRANSFER",
     "URB_FUNCTION_BULK_OR_INTERRUPT_TRANSFER",
     "URB_FUNCTION_ISOCH_TRANSFER",
     "URB_FUNCTION_GET_DESCRIPTOR_FROM_DEVICE",
     "URB_FUNCTION_SET_DESCRIPTOR_TO_DEVICE",
     "URB_FUNCTION_SET_FEATURE_TO_DEVICE",
     "URB_FUNCTION_SET_FEATURE_TO_INTERFACE",
     "URB_FUNCTION_SET_FEATURE_TO_ENDPOINT",
     "URB_FUNCTION_CLEAR_FEATURE_TO_DEVICE",
     "URB_FUNCTION_CLEAR_FEATURE_TO_INTERFACE",
     "URB_FUNCTION_CLEAR_FEATURE_TO_ENDPOINT",
     "URB_FUNCTION_GET_STATUS_FROM_DEVICE",
     "URB_FUNCTION_GET_STATUS_FROM_INTERFACE",
     "URB_FUNCTION_GET_STATUS_FROM_ENDPOINT",
     "URB_FUNCTION_RESERVED_0X0016", "URB_FUNCTION_VENDOR_DEVICE",
     "URB_FUNCTION_VENDOR_INTERFACE", "URB_FUNCTION_VENDOR_ENDPOINT",
     "URB_FUNCTION_CLASS_DEVICE", "URB_FUNCTION_CLASS_INTERFACE",
     "URB_FUNCTION_CLASS_ENDPOINT", "URB_FUNCTION_RESERVE_0X001D",
     "URB_FUNCTION_SYNC_RESET_PIPE_AND_CLEAR_STALL",
     "URB_FUNCTION_CLASS_OTHER", "URB_FUNCTION_VENDOR_OTHER",
     "URB_FUNCTION_GET_STATUS_FROM_OTHER",
     "URB_FUNCTION_SET_FEATURE_TO_OTHER",
     "URB_FUNCTION_CLEAR_FEATURE_TO_OTHER", "URB_FUNCTION_GET_INTERFACE",
     "URB_FUNCTION_SET_INTERFACE", "URB_FUNCTION_GET_CONFIGURATION",
     "URB_FUNCTION_GET_DESCRIPTOR_FROM_ENDPOINT",
     "URB_FUNCTION_SET_DESCRIPTOR_TO_ENDPOINT",
     "URB_FUNCTION_SET_CONFIGURATION",
     "URB_FUNCTION_GET_DESCRIPTOR_FROM_INTERFACE",
     "URB_FUNCTION_SET_DESCRIPTOR_TO_INTERFACE",
     "URB_FUNCTION_GET_MS_FEATURE_DESCRIPTOR"
  >>

URB_FUNCTION_CONTROL_TRANSFER == 8

(* class URBStatus, lines 99-117: (hi, lo, name). *)
URBStatus ==
  {
     <<0, 0, "USBD_STATUS_SUCCESS">>, <<16384, 0, "USBD_STATUS_PENDING">>,
     <<49152, 0, "USBD_STATUS_ERROR">>, <<49152, 1, "USBD_STATUS_HALTED">>,
     <<49152, 2, "USBD_STATUS_INVALID_REQUEST">>,
     <<49152, 3, "USBD_STATUS_INVALID_PIPE_HANDLE">>,
     <<49152, 4, "USBD_STATUS_NO_BANDWIDTH">>,
     <<49152, 5, "USBD_STATUS_INTERNAL_HC_ERROR">>,
     <<49152, 6, "USBD_STATUS_ERROR_SHORT_TRANSFER">>,
     <<49152, 7, "USBD_STATUS_BAD_START_FRAME">>,
     <<49152, 8, "USBD_STATUS_ISOCH_REQUEST_FAILED">>,
     <<49152, 9, "USBD_STATUS_FRAME_CONTROL_OWNED">>,
     <<49152, 10, "USBD_STATUS_FRAME_CONTROL_NOT_OWNED">>,
     <<49152, 11, "USBD_STATUS_NOT_SUPPORTED">>,
     <<49152, 12, "USBD_STATUS_INAVLID_URB_FUNCTION">>,
     <<49152, 13, "USBD_STATUS_INVALID_PARAMETER">>,
     <<49152, 14, "USBD_STATUS_ERROR_BUSY">>
  }

HexDigit == <<"0", "1", "2", "3", "4", "5", "6", "7", "8", "9",
              "A", "B", "C", "D", "E", "F">>

(* The digits of format(n, 'X') for n >= 0. *)
RECURSIVE Hex(_)
Hex(n) == IF n < 16 THEN HexDigit[n + 1]
          ELSE Hex(n \div 16) \o HexDigit[(n % 16) + 1]

RECURSIVE ZeroFill(_, _)
ZeroFill(s, width) == IF Len(s) >= width THEN s ELSE ZeroFill("0" \o s, width)

(* format(n, '0<width>X') of a signed magnitude given by its digits: the  *)
(* zeros go between the sign and the digits and the sign counts in the    *)
(* width.                                                                 *)
FormatX(neg, digits, width) ==
    IF neg THEN "-" \o ZeroFill(digits, width - 1) ELSE ZeroFill(digits, width)

GetUrbFunctionNameUnpadded(func_code) ==
    IF func_code \in 0..(Len(URBFunction) - 1)
    THEN URBFunction[func_code + 1]
    ELSE "UNKNOWN_0x" \o (IF func_code < 0 THEN "-" \o Hex(-func_code)
                          ELSE Hex(func_code))

(* _get_urb_function_name, lines 343-348 and 715-720. *)
GetUrbFunctionName(func_code) ==
    IF func_code \in 0..(Len(URBFunction) - 1)
    THEN URBFunction[func_code + 1]
    ELSE "UNKNOWN_0x" \o FormatX(func_code < 0,
                                  Hex(IF func_code < 0 THEN -func_code ELSE func_code),
                                  4)

(* status & 0xFFFFFFFF, two's complement for a negative status. *)
Mask32(s) ==
    LET h == s.hi % Limb
    IN IF ~s.neg THEN [neg |-> FALSE, hi |-> h, lo |-> s.lo]
       ELSE IF s.lo = 0
       THEN [neg |-> FALSE, hi |-> (Limb - h) % Limb, lo |-> 0]
       ELSE [neg |-> FALSE, hi |-> Limb - 1 - h, lo |-> Limb - s.lo]

(* The digits of format(abs(s), 'X'). *)
HexOf(s) == IF s.hi = 0 THEN Hex(s.lo) ELSE Hex(s.hi) \o ZeroFill(Hex(s.lo), 4)

(* GetStatusName looking the status up as it came. *)
GetStatusNameUnmasked(status) ==
    LET hit == {e \in URBStatus : ~status.neg /\ e[1] = status.hi /\ e[2] = status.lo}
    IN IF hit # {}
       THEN (CHOOSE e \in hit : TRUE)[3]
       ELSE "STATUS_0x" \o FormatX(status.neg /\ (status.hi # 0 \/ status.lo # 0),
                                    HexOf(status), 8)

(* _get_status_name, lines 350-355 and 722-727: the table is looked up    *)
(* with the masked value, the fallback formats the status as it came.     *)
GetStatusName(status) ==
    LET m == Mask32(status)
        hit == {e \in URBStatus : e[1] = m.hi /\ e[2] = m.lo}
    IN IF hit # {}
       THEN (CHOOSE e \in hit : TRUE)[3]
       ELSE "STATUS_0x" \o FormatX(status.neg /\ (status.hi # 0 \/ status.lo # 0),
                                    HexOf(status), 8)

TransferBufferLimit == 1024

(* self.usb_providers, lines 215-221. *)
usb_providers ==
    {"Microsoft-Windows-USB-USBPORT", "Microsoft-Windows-USB-USBXHCI",
     "Microsoft-Windows-USB-UCX", "Microsoft-Windows-USB-USBHUB3",
     "Microsoft-Windows-USB-USBHUB"}

(* Python's s.find(sub) + 1: the first position of sub in s, 0 for none. *)
IndexOf(s, sub) ==
    LET hits == {i \in 1..(Len(s) - Len(sub) + 1) :
                    SubSeq(s, i, i + Len(sub) - 1) = sub}
    IN IF hits = {} THEN 0 ELSE CHOOSE i \in hits : \A j \in hits : i <= j

(* sub in s *)
Contains(s, sub) == IndexOf(s, sub) > 0

SliceToEnd(s, from, n) ==
    IF from > Len(s) THEN SubSeq(s, 1, 0) ELSE SubSeq(s, from, Len(s))

(* s[from:from+n] with from counted from 1: the slice ends with s. *)
Slice(s, from, n) ==
    IF from > Len(s) THEN SubSeq(s, 1, 0)
    ELSE SubSeq(s, from, IF from + n - 1 > Len(s) THEN Len(s) ELSE from + n - 1)

(* line 227. *)
IsUsbProvider(provider_name) ==
    \E provider \in usb_providers : Contains(provider_name, provider)

(* event_data.get(k1, event_data.get(k2, default)) *)
Get(event_data, k1, k2, default) ==
    IF k1 \in DOMAIN event_data THEN event_data[k1]
    ELSE IF k2 \in DOMAIN event_data THEN event_data[k2]
    ELSE default

(* AfterMarker reading behind the last occurrence of the marker. *)
AfterMarkerLast(device_id, marker) ==
    LET hits == {i \in 1..(Len(device_id) - Len(marker) + 1) :
                    SubSeq(device_id, i, i + Len(marker) - 1) = marker}
        last == CHOOSE i \in hits : \A j \in hits : j <= i
    IN IF hits = {} THEN ""
       ELSE Slice(device_id, last + Len(marker), 4)

(* _extract_vid_pid, lines 326-341: one marker. *)
AfterMarker(device_id, marker) ==
    IF Contains(device_id, marker)
    THEN Slice(device_id, IndexOf(device_id, marker) + Len(marker), 4)
    ELSE ""

EndpointDirectionByBit0(endpoint) ==
    IF endpoint % 2 = 1 THEN "IN" ELSE "OUT"

(* line 267: endpoint & 0x80 is bit 7 of the address. *)
EndpointDirection(endpoint) ==
    IF (endpoint \div 128) % 2 = 1 THEN "IN" ELSE "OUT"

HexChars == "0123456789abcdefABCDEF"

HexValue(ch) ==
    LET i == IndexOf(HexChars, ch)
    IN IF i <= 16 THEN i - 1 ELSE i - 7

RECURSIVE WithoutSpaces(_)
WithoutSpaces(s) ==
    IF Len(s) = 0 THEN s
    ELSE IF SubSeq(s, 1, 1) = " " THEN WithoutSpaces(SubSeq(s, 2, Len(s)))
    ELSE SubSeq(s, 1, 1) \o WithoutSpaces(SubSeq(s, 2, Len(s)))

(* bytes.fromhex of a string without spaces: the bytes, or the failure   *)
(* ValueError for an odd length or a character that is no hex digit.      *)
FromHexFails(s) ==
    \/ Len(s) % 2 = 1
    \/ \E i \in 1..Len(s) : ~Contains(HexChars, SubSeq(s, i, i))

FromHex(s) ==
    [j \in 1..(Len(s) \div 2) |->
        16 * HexValue(SubSeq(s, 2 * j - 1, 2 * j - 1)) + HexValue(SubSeq(s, 2 * j, 2 * j))]

(* lines 269-275: a str buffer is read as hex, b'' when that fails; any   *)
(* other value is kept.                                                   *)
TransferBufferOf(event_data) ==
    LET given == IF "TransferBuffer" \in DOMAIN event_data
                 THEN event_data["TransferBuffer"]
                 ELSE [t |-> "bytes", v |-> <<>>]
    IN IF given.t = "str"
       THEN [t |-> "bytes",
             v |-> IF FromHexFails(WithoutSpaces(given.v)) THEN <<>>
                   ELSE FromHex(WithoutSpaces(given.v))]
       ELSE given

SetupPacketOfAnyFunction(urb_function, event_data) ==
    [bmRequestType |-> Get(event_data, "bmRequestType", "RequestType", 0),
     bRequest |-> Get(event_data, "bRequest", "Request", 0),
     wValue |-> Get(event_data, "wValue", "Value", 0),
     wIndex |-> Get(event_data, "wIndex", "Index", 0),
     wLength |-> Get(event_data, "wLength", "Length", 0)]

(* lines 277-286. *)
SetupPacket(urb_function, event_data) ==
    IF urb_function = URB_FUNCTION_CONTROL_TRANSFER
    THEN [bmRequestType |-> Get(event_data, "bmRequestType", "RequestType", 0),
          bRequest |-> Get(event_data, "bRequest", "Request", 0),
          wValue |-> Get(event_data, "wValue", "Value", 0),
          wIndex |-> Get(event_data, "wIndex", "Index", 0),
          wLength |-> Get(event_data, "wLength", "Length", 0)]
    ELSE <<>>

(* setup_packet.get(k, 0) *)
SetupField(setup_packet, k) ==
    IF k \in DOMAIN setup_packet THEN setup_packet[k] ELSE 0

(* The record _extract_urb_from_event builds (lines 241-324), or no      *)
(* record when building it raises: a TransferBuffer that cannot be sliced *)
(* raises TypeError at line 302, caught at line 322.  The fields copied   *)
(* from the event without any processing (interval, start_frame,          *)
(* number_of_packets, error_count, pipe_handle, timeout, raw_data and the *)
(* three ids) are left out of the record.                                 *)
ExtractUrb(event, event_data, now) ==
    LET urb_function == Get(event_data, "Function", "URBFunction", 0)
        status == Get(event_data, "Status", "USBDStatus", ZeroStatus)
        device_id == Get(event_data, "DeviceId", "DeviceID", "")
        endpoint == Get(event_data, "EndpointAddress", "Endpoint", 0)
        transfer_buffer == TransferBufferOf(event_data)
        setup_packet == SetupPacket(urb_function, event_data)
    IN IF transfer_buffer.t # "bytes" THEN <<>>
       ELSE << [timestamp |-> IF event.has_ts THEN event.timestamp ELSE now,
                urb_function |-> urb_function,
                urb_function_name |-> GetUrbFunctionName(urb_function),
                status |-> status,
                status_name |-> GetStatusName(status),
                device_id |-> device_id,
                vid |-> AfterMarker(device_id, "VID_"),
                pid |-> AfterMarker(device_id, "PID_"),
                endpoint_address |-> endpoint,
                endpoint_direction |-> EndpointDirection(endpoint),
                transfer_buffer_length |->
                    Get(event_data, "TransferBufferLength", "Length", 0),
                actual_length |-> Get(event_data, "ActualLength", "Actual", 0),
                transfer_buffer |-> Slice(transfer_buffer.v, 1, TransferBufferLimit),
                setup_packet |-> setup_packet,
                request_type |-> SetupField(setup_packet, "bmRequestType"),
                request |-> SetupField(setup_packet, "bRequest"),
                value |-> SetupField(setup_packet, "wValue"),
                index |-> SetupField(setup_packet, "wIndex"),
                length |-> SetupField(setup_packet, "wLength")] >>

(* on_event_record, lines 223-239: urb_list after the event.  An event of *)
(* another provider is skipped, one whose parse_etw raises is dropped by  *)
(* the handler of line 238, one without parse_etw has no fields.          *)
OnEventRecordAborting(urb_list, event, now) ==
    IF ~IsUsbProvider(event.provider_name) THEN urb_list
    ELSE IF event.etw = "raise" THEN <<>>
    ELSE urb_list \o ExtractUrb(event, IF event.etw = "absent" THEN <<>>
                                       ELSE event.event_data, now)

OnEventRecord(urb_list, event, now) ==
    IF ~IsUsbProvider(event.provider_name) THEN urb_list
    ELSE IF event.etw = "raise" THEN urb_list
    ELSE urb_list \o ExtractUrb(event, IF event.etw = "absent" THEN <<>>
                                       ELSE event.event_data, now)

(* ======================== parse_etl_file ============================== *)
captureVars == <<budget, is_windows, is_admin, logman_available,
                 capVars, callerVars, workerVars, osVars>>

(* str.replace: every occurrence of old, left to right. *)
RECURSIVE Replace(_, _, _)
Replace(s, old, new) ==
    IF Len(s) < Len(old) THEN s
    ELSE IF SubSeq(s, 1, Len(old)) = old
         THEN new \o Replace(SubSeq(s, Len(old) + 1, Len(s)), old, new)
         ELSE SubSeq(s, 1, 1) \o Replace(SubSeq(s, 2, Len(s)), old, new)

(* line 384. *)
XmlFileOf(path) == Replace(path, ".etl", "_temp.xml")

(* ------------------------------ inputs -------------------------------- *)
MaxBatch == 3

TracePaths == {"usb.etl", "USB.ETL"}
DiskPaths == TracePaths \cup {XmlFileOf(p) : p \in TracePaths}

DiskWith(path, there) ==
    [p \in DiskPaths |-> IF p = path /\ there THEN "etl" ELSE "absent"]

(* The outcomes of what parse_etl_file calls: whether etl-parser can be   *)
(* imported, how opening and decoding the file end, how tracerpt ends,    *)
(* and whether os.remove succeeds.                                        *)
WorkingEnv == [parser |-> TRUE, reader |-> "ok", tool |-> "ok", remove |-> "ok"]
Envs ==
    {[parser |-> TRUE, reader |-> r, tool |-> "ok", remove |-> "ok"] :
        r \in {"ok", "OSError", "ValueError"}}
    \cup
    {[parser |-> FALSE, reader |-> "ok", tool |-> t, remove |-> rm] :
        t \in {"ok", "nonzero", "nooutput", "missing", "timeout"},
        rm \in {"ok", "fail"}}

Bytes(n) == [j \in 1..n |-> (j * 7 + 3) % 256]

SetupFields ==
    ("bmRequestType" :> 128) @@ ("bRequest" :> 6) @@ ("wValue" :> 256)
    @@ ("wIndex" :> 1) @@ ("wLength" :> 18)

SetupAliases ==
    ("RequestType" :> 33) @@ ("Request" :> 9) @@ ("Value" :> 2)
    @@ ("Index" :> 3) @@ ("Length" :> 64)

UsbEvent(event_data) ==
    [provider_name |-> "Microsoft-Windows-USB-USBPORT", etw |-> "ok",
     has_ts |-> TRUE, timestamp |-> 1, event_data |-> event_data]

(* The events the batches are made of: a control transfer, a bulk         *)
(* transfer without timestamp under the alternate field names, an event   *)
(* whose parse_etw raises, an event whose buffer cannot be sliced, an     *)
(* event of another provider, and one whose provider name contains a USB  *)
(* provider name.                                                         *)
SampleEvents ==
    << UsbEvent(("Function" :> 8) @@ ("EndpointAddress" :> 128)
                @@ ("DeviceId" :> "USB/VID_046D&PID_C52B/6")
                @@ ("TransferBuffer" :> [t |-> "bytes", v |-> <<18, 1>>])
                @@ SetupFields),
       [provider_name |-> "Microsoft-Windows-USB-UCX", etw |-> "ok",
        has_ts |-> FALSE, timestamp |-> 0,
        event_data |-> ("URBFunction" :> 9) @@ ("Endpoint" :> 2)
                       @@ ("USBDStatus" :> [neg |-> FALSE, hi |-> 49152, lo |-> 4])
                       @@ ("TransferBuffer" :> [t |-> "str", v |-> "0a FF"])],
       [provider_name |-> "Microsoft-Windows-USB-USBHUB3", etw |-> "raise",
        has_ts |-> TRUE, timestamp |-> 1, event_data |-> <<>>],
       [provider_name |-> "Microsoft-Windows-USB-USBXHCI", etw |-> "ok",
        has_ts |-> TRUE, timestamp |-> 1,
        event_data |-> ("Function" :> 9)
                       @@ ("TransferBuffer" :> [t |-> "none", v |-> <<>>])],
       [provider_name |-> "Microsoft-Windows-Kernel-Process", etw |-> "ok",
        has_ts |-> TRUE, timestamp |-> 1,
        event_data |-> ("Function" :> 8) @@ SetupFields],
       [provider_name |-> "Contoso-Microsoft-Windows-USB-USBHUB-Filter",
        etw |-> "absent", has_ts |-> TRUE, timestamp |-> 1,
        event_data |-> <<>>] >>

Batches == UNION {[1..n -> DOMAIN SampleEvents] : n \in 0..MaxBatch}

FunctionCodes ==
    (0..(Len(URBFunction) + 2)) \cup {255, 4095, 65535, 65536, 74565, -1, -255}

StatusCodes ==
    {[neg |-> FALSE, hi |-> t[1], lo |-> t[2]] : t \in URBStatus}
    \cup {[neg |-> FALSE, hi |-> 0, lo |-> 1],
          [neg |-> FALSE, hi |-> 32768, lo |-> 0],
          [neg |-> FALSE, hi |-> 49152, lo |-> 15],
          [neg |-> FALSE, hi |-> 65535, lo |-> 65535],
          [neg |-> FALSE, hi |-> 65536, lo |-> 0],
          [neg |-> FALSE, hi |-> 65536, lo |-> 1],
          [neg |-> FALSE, hi |-> 114688, lo |-> 5],
          [neg |-> TRUE, hi |-> 0, lo |-> 1],
          [neg |-> TRUE, hi |-> 16384, lo |-> 0],
          [neg |-> TRUE, hi |-> 32767, lo |-> 65535],
          [neg |-> TRUE, hi |-> 65536, lo |-> 1]}

BufferLengths ==
    {0, 1, TransferBufferLimit - 1, TransferBufferLimit,
     TransferBufferLimit + 1, 2 * TransferBufferLimit}

HexStrings == {"", "0aFF", "0a ff 10", " 7f", "0a f", "zz", "0A0G"}

DeviceIds ==
    {"", "USB/VID_046D&PID_C52B/6&1", "USB/PID_C52B&VID_046D", "USB/VID_04",
     "USB/PID_1", "VID_0001VID_0002PID_0003PID_0004", "USB/ROOT_HUB30",
     "vid_046d&pid_c52b", "USB/VID_&PID_"}

(* One event per file, one field varied at a time. *)
Probes(events) ==
    \/ \E a \in 0..255, f \in {0, 8, 9} :
          \/ events = <<UsbEvent(("EndpointAddress" :> a) @@ ("Function" :> f))>>
          \/ events = <<UsbEvent(("Endpoint" :> a) @@ ("URBFunction" :> f))>>
          \/ events = <<UsbEvent(("EndpointAddress" :> a) @@ ("Endpoint" :> 255 - a)
                                 @@ ("Function" :> f))>>
    \/ \E c \in FunctionCodes :
          \/ events = <<UsbEvent(("Function" :> c) @@ SetupFields)>>
          \/ events = <<UsbEvent(("URBFunction" :> c) @@ SetupAliases)>>
          \/ events = <<UsbEvent(("Function" :> c) @@ ("URBFunction" :> 8))>>
          \/ events = <<UsbEvent("Function" :> c)>>
    \/ \E st \in StatusCodes :
          \/ events = <<UsbEvent("Status" :> st)>>
          \/ events = <<UsbEvent("USBDStatus" :> st)>>
    \/ \E n \in BufferLengths, f \in {8, 9} :
          events = <<UsbEvent(("Function" :> f)
                              @@ ("TransferBuffer" :> [t |-> "bytes", v |-> Bytes(n)])
                              @@ ("TransferBufferLength" :> n))>>
    \/ \E h \in HexStrings :
          events = <<UsbEvent("TransferBuffer" :> [t |-> "str", v |-> h])>>
    \/ \E d \in DeviceIds :
          \/ events = <<UsbEvent("DeviceId" :> d)>>
          \/ events = <<UsbEvent("DeviceID" :> d)>>

InitParse ==
    /\ Constructed
    /\ budget.calls = MaxCalls /\ budget.captures = 1 /\ budget.apis = {"rt"}
    /\ is_windows /\ is_admin /\ logman_available
    /\ \/ /\ Probes(etl_events)
          /\ penv = WorkingEnv
          /\ etl_file = "usb.etl"
          /\ disk = DiskWith(etl_file, TRUE)
       \/ /\ \E b \in Batches : etl_events = [i \in DOMAIN b |-> SampleEvents[b[i]]]
          /\ penv \in Envs
          /\ etl_file \in TracePaths
          /\ \E there \in BOOLEAN : disk = DiskWith(etl_file, there)
    /\ ppc = "idle"
    /\ pnext = 0
    /\ purbs = <<>>
    /\ xml_file = ""
    /\ pending = "none"
    /\ presult = "none"
    /\ plist = <<>>
    /\ plog = {}
    /\ pclock = 2

(* ------------------------------ actions ------------------------------- *)
PReturn(list) ==
    /\ ppc' = "done"
    /\ presult' = "returned"
    /\ plist' = list

PRaise ==
    /\ ppc' = "done"
    /\ presult' = "raised"
    /\ plist' = <<>>

(* The except clauses of parse_etl_file, lines 367-373. *)
ParseExceptImportOnly(exc) ==
    IF exc = "ImportError"
    THEN /\ ppc' = "alt_run"
         /\ xml_file' = XmlFileOf(etl_file)
         /\ UNCHANGED <<presult, plist>>
    ELSE PRaise /\ UNCHANGED xml_file

ParseExcept(exc) ==
    IF exc = "ImportError"
    THEN /\ ppc' = "alt_run"
         /\ xml_file' = XmlFileOf(etl_file)
         /\ UNCHANGED <<presult, plist>>
    ELSE PReturn(<<>>) /\ UNCHANGED xml_file

(* lines 199-203. *)
ParseCall ==
    /\ ppc = "idle"
    /\ IF disk[etl_file] = "absent"
       THEN PReturn(<<>>)
       ELSE ppc' = "import" /\ UNCHANGED <<presult, plist>>
    /\ purbs' = <<>>
    /\ UNCHANGED <<etl_file, disk, etl_events, penv, pnext, xml_file, pending,
                   plog, pclock, captureVars>>

(* lines 206-208. *)
ParseImport ==
    /\ ppc = "import"
    /\ IF penv.parser
       THEN ppc' = "read" /\ UNCHANGED <<xml_file, presult, plist>>
       ELSE ParseExcept("ImportError")
    /\ UNCHANGED <<etl_file, disk, etl_events, penv, pnext, purbs, pending,
                   plog, pclock, captureVars>>

(* lines 358-361: open, read, build_from_stream. *)
ParseRead ==
    /\ ppc = "read"
    /\ IF penv.reader = "OSError"
       THEN ParseExcept("OSError") /\ UNCHANGED <<pnext, plog>>
       ELSE /\ ppc' = "events"
            /\ pnext' = 1
            /\ plog' = plog \cup {"read", "decoder"}
            /\ UNCHANGED <<xml_file, presult, plist>>
    /\ UNCHANGED <<etl_file, disk, etl_events, penv, purbs, pending, pclock,
                   captureVars>>

(* line 362: the reader raises between two events. *)
ParseReaderFails ==
    /\ ppc = "events"
    /\ penv.reader = "ValueError"
    /\ ParseExcept("ValueError")
    /\ UNCHANGED <<etl_file, disk, etl_events, penv, pnext, purbs, pending,
                   plog, pclock, captureVars>>

(* line 362: the reader hands the next event to on_event_record.  The     *)
(* clock is read for an event without timestamp (line 246).               *)
ParseEvent(tick) ==
    /\ ppc = "events"
    /\ pnext <= Len(etl_events)
    /\ etl_events[pnext].has_ts => tick = 0
    /\ pclock' = pclock + tick
    /\ purbs' = OnEventRecord(purbs, etl_events[pnext], pclock')
    /\ pnext' = pnext + 1
    /\ UNCHANGED <<etl_file, disk, etl_events, penv, ppc, xml_file, pending,
                   presult, plist, plog, captureVars>>

(* lines 364-365. *)
ParseReturn ==
    /\ ppc = "events"
    /\ pnext > Len(etl_events)
    /\ penv.reader = "ok"
    /\ PReturn(purbs)
    /\ UNCHANGED <<etl_file, disk, etl_events, penv, pnext, purbs, xml_file,
                   pending, plog, pclock, captureVars>>

(* The except clauses of _parse_etl_alternative, lines 414-419. *)
AltExceptMissingOnly(exc) ==
    IF exc = "FileNotFoundError" THEN "return" ELSE "raise"

AltExcept(exc) == "return"

(* lines 388-401: tracerpt runs; wrote says whether it left output. *)
AltRun(wrote) ==
    /\ ppc = "alt_run"
    /\ plog' = plog \cup {"tool"}
    /\ penv.tool = "ok" => wrote
    /\ penv.tool \in {"nooutput", "missing"} => ~wrote
    /\ disk' = IF wrote
               THEN [disk EXCEPT ![xml_file] =
                        IF penv.tool = "ok" THEN "xml" ELSE "partial"]
               ELSE disk
    /\ CASE penv.tool = "missing" ->
              pending' = AltExcept("FileNotFoundError") /\ ppc' = "alt_finally"
         [] penv.tool = "timeout" ->
              pending' = AltExcept("TimeoutExpired") /\ ppc' = "alt_finally"
         [] penv.tool = "nonzero" ->
              pending' = "return" /\ ppc' = "alt_finally"
         [] OTHER ->
              IF disk'[xml_file] = "absent"
              THEN pending' = "return" /\ ppc' = "alt_finally"
              ELSE pending' = pending /\ ppc' = "alt_xml"
    /\ UNCHANGED <<etl_file, etl_events, penv, pnext, purbs, xml_file, presult,
                   plist, pclock, captureVars>>

(* lines 403-412: the XML is parsed to count its events; a parse error is *)
(* swallowed at line 409, so both outcomes go on to return urbs.          *)
AltXml ==
    /\ ppc = "alt_xml"
    /\ pending' = "return"
    /\ ppc' = "alt_finally"
    /\ UNCHANGED <<etl_file, disk, etl_events, penv, pnext, purbs, xml_file,
                   presult, plist, plog, pclock, captureVars>>

(* AltFinally removing the output only after a tracerpt that exited 0. *)
AltFinallyOnSuccessOnly ==
    /\ ppc = "alt_finally"
    /\ plog' = IF disk[xml_file] # "absent" /\ penv.tool = "ok"
               THEN plog \cup {"remove"} ELSE plog
    /\ disk' = IF disk[xml_file] # "absent" /\ penv.tool = "ok"
                  /\ penv.remove = "ok"
               THEN [disk EXCEPT ![xml_file] = "absent"]
               ELSE disk
    /\ IF pending = "raise" THEN PRaise ELSE PReturn(<<>>)
    /\ UNCHANGED <<etl_file, etl_events, penv, pnext, purbs, xml_file, pending,
                   pclock, captureVars>>

(* lines 420-425: os.remove is called for an xml_file that exists, and a  *)
(* failure of it is swallowed; then the pending return or exception takes *)
(* effect.                                                                *)
AltFinally ==
    /\ ppc = "alt_finally"
    /\ plog' = IF disk[xml_file] # "absent" THEN plog \cup {"remove"} ELSE plog
    /\ disk' = IF disk[xml_file] # "absent" /\ penv.remove = "ok"
               THEN [disk EXCEPT ![xml_file] = "absent"]
               ELSE disk
    /\ IF pending = "raise" THEN PRaise ELSE PReturn(<<>>)
    /\ UNCHANGED <<etl_file, etl_events, penv, pnext, purbs, xml_file, pending,
                   pclock, captureVars>>

NextParse ==
    \/ ParseCall
    \/ ParseImport
    \/ ParseRead
    \/ ParseReaderFails
    \/ \E tick \in 0..1 : ParseEvent(tick)
    \/ ParseReturn
    \/ \E wrote \in BOOLEAN : AltRun(wrote)
    \/ AltXml
    \/ AltFinally

SpecParse == InitParse /\ [][NextParse]_vars

(* The worker threads are scheduled: a worker that can take a step takes  *)
(* one (threading.Thread, lines 579-584).                                 *)
SpecThreads ==
    /\ Init /\ [][Next]_vars
    /\ \A w \in Workers : WF_vars(WorkerStep(w))

(* ------------------------------ claims -------------------------------- *)
RtStart(c) == call[c].api = "rt" /\ call[c].op = "start"

RtStop(c) == call[c].api = "rt" /\ call[c].op = "stop"

Alive(w) == wpc[w] \notin {"unborn", "created", "w_done"}

Started == {w \in Workers : wpc[w] \notin {"unborn", "created"}}

(* C1: a start_realtime_capture that finds its URBCapture running returns *)
(* False and changes nothing: no thread is created or started, the        *)
(* registered sink, the running flag, the workers, the trace session and  *)
(* the files are as they were.                                            *)
C1_SecondStartRejected ==
    [][\A c \in Callers :
         (cpc[c] = "sr_check" /\ cpc'[c] # "sr_check"
            /\ realtime_running[call[c].cap])
         => /\ cpc'[c] = "idle"
            /\ cret'[c] = "False"
            /\ UNCHANGED <<capVars, workerVars, osVars>>]_vars

(* A second start was rejected and the worker of the first, its session   *)
(* active, is delivering a record to the sink of the first.               *)
C1_Witness ==
    \E c \in Callers, w \in Workers :
        /\ is_available /\ RtStart(c) /\ cpc[c] = "idle" /\ cret[c] = "False"
        /\ wcap[w] = call[c].cap /\ wpc[w] = "w_deliver"
        /\ realtime_running[wcap[w]]
        /\ realtime_callback[wcap[w]] \notin {NoSink, call[c].id}
        /\ session.active /\ session.owner = <<"worker", w>>

(* Two callers made one start_realtime_capture call each on the same      *)
(* URBCapture, the second while the first was in its call, and nothing    *)
(* else was called.                                                       *)
ConcurrentStarts(c, d) ==
    /\ is_available /\ ncalls = 2 /\ c # d
    /\ RtStart(c) /\ RtStart(d) /\ call[c].cap = call[d].cap
    /\ call[c].id = 1 /\ call[d].id = 2

BothReturned(c, d) == cpc[c] = "idle" /\ cpc[d] = "idle"

Accepted(c, d) == {x \in {c, d} : cret[x] = "True"}

(* C2: between the check of realtime_running and its set to True the      *)
(* caller holds the lock and the flag stays False; of two concurrent      *)
(* starts on one idle URBCapture at least one returns True, every True    *)
(* started one worker, and both return True only when a worker has ended  *)
(* by an exception, which put the capture back to idle, in between.       *)
C2_StartsExclude ==
    /\ \A c \in Callers :
          cpc[c] = "sr_setrun"
          => realtime_lock[call[c].cap] = c /\ ~realtime_running[call[c].cap]
    /\ \A c, d \in Callers :
          ConcurrentStarts(c, d) /\ BothReturned(c, d)
          => /\ Accepted(c, d) # {}
             /\ Cardinality(Started) = Cardinality(Accepted(c, d))
             /\ Accepted(c, d) = {c, d}
                => \E w \in Workers : wpc[w] = "w_done" /\ wl[w].exc # "none"

(* Two concurrent starts have both returned, one True and one False. *)
C2_Witness ==
    \E c, d \in Callers :
        /\ ConcurrentStarts(c, d) /\ BothReturned(c, d)
        /\ Cardinality(Accepted(c, d)) = 1
        /\ \E w \in Workers : Alive(w)

(* C2 as the specification states it: exactly one of two concurrent       *)
(* starts returns True and exactly one worker is started.                 *)
C2_ExactlyOne ==
    \A c, d \in Callers :
        ConcurrentStarts(c, d) /\ BothReturned(c, d)
        => Cardinality(Accepted(c, d)) = 1 /\ Cardinality(Started) = 1

(* C3: the named trace session has one owner in the process: no two       *)
(* URBCapture objects are running a real-time capture at the same time.   *)
C3_OneOwner ==
    \A i, j \in Captures :
        realtime_running[i] /\ realtime_running[j] => i = j

(* C4: a session start (the pre-stop of start_etw_capture, the pre-stop   *)
(* and pre-delete of _start_etw_session) that finds a session of the      *)
(* engine's name active leaves it as it is.                               *)
C4_ActiveSessionUndisturbed ==
    [][(\/ \E c \in Callers : cpc[c] = "es_stop" /\ cpc'[c] # "es_stop"
        \/ \E w \in Workers : /\ wpc[w] \in {"w_sess_stop", "w_sess_delete"}
                                /\ wpc'[w] # wpc[w])
       => (session.active => session' = session)]_vars

Keys(deliveries) == {UrbId(deliveries[n].urb) : n \in DOMAIN deliveries}

InLoop(w) == wpc[w] \in {"w_loop", "w_poll", "w_parse", "w_deliver"}

C6_FileOrder ==
    \A w \in Workers :
        \A m, n \in DOMAIN sent[w] :
            m < n => sent[w][m].urb.idx < sent[w][n].urb.idx

(* C7: a worker whose capture was stopped leaves the loop at its next     *)
(* check of the flag, for the stop of the session and the deletion of     *)
(* the temp file.                                                         *)
C7_CancelledWorkerExits ==
    [][\A w \in Workers :
         (wl[w].cancelled /\ wpc[w] = "w_loop" /\ wpc'[w] # "w_loop")
         => wpc'[w] = "w_fin_stop"]_vars

(* C8: a stop_realtime_capture call returns True or False. *)
C8_StopReturns ==
    \A c \in Callers :
        RtStop(c) /\ cpc[c] = "idle" => cret[c] \in {"True", "False"}

(* C9: a real-time capture whose session create failed is not reported    *)
(* running: a worker polls for a running capture only with the session it *)
(* created.                                                               *)
C9_FailureSurfaced ==
    \A w \in Workers :
        InLoop(w) /\ realtime_running[wcap[w]] => wl[w].sess_ok

(* C10: a worker in which an exception was raised handles it and ends,    *)
(* setting realtime_running False as it does; when the exception came     *)
(* from the sink callback the stop of the session was issued and the      *)
(* deletion of the temp file attempted before, when it came from the      *)
(* directory creation neither was.                                        *)
C10_ExceptionHandled ==
    /\ [](\A w \in Workers :
            /\ wl[w].exc # "none"
               => wpc[w] \in {"w_fin_stop", "w_fin_remove", "w_except", "w_done"}
            /\ wpc[w] = "w_except"
               => /\ wl[w].exc \in {"makedirs", "callback"}
                  /\ wl[w].stop_issued = (wl[w].exc = "callback")
                  /\ wl[w].remove_tried = (wl[w].exc = "callback"))
    /\ [][\A w \in Workers :
             (wpc[w] = "w_except" /\ wpc'[w] # "w_except")
             => wpc'[w] = "w_done" /\ ~realtime_running'[wcap[w]]]_vars

(* The sink callback raised in a worker, the worker has ended, and a      *)
(* later start on the same URBCapture returned True.                      *)
C10_Witness ==
    \E w \in Workers, c \in Callers :
        /\ wpc[w] = "w_done" /\ wl[w].exc = "callback"
        /\ RtStart(c) /\ call[c].cap = wcap[w] /\ call[c].id = 2
        /\ cpc[c] = "idle" /\ cret[c] = "True"
        /\ call[c].thr # w

(* C10 as the specification states it: after any exception in the worker  *)
(* the session stop was issued and the temp file deletion attempted.      *)
C10_AlwaysCleansUp ==
    \A w \in Workers :
        wpc[w] = "w_except" => wl[w].stop_issued /\ wl[w].remove_tried

GateDenies == ~(is_windows /\ is_admin /\ logman_available)

Begins(c, api, op) ==
    /\ cpc[c] = "idle" /\ call'[c] # call[c]
    /\ call'[c].api = api /\ call'[c].op = op

(* C11: with the capability gate denying, start_etw_capture returns None  *)
(* and start_realtime_capture returns False at once and change nothing:   *)
(* no tool is run (the session is as it was), no file is created, no      *)
(* thread or timer is started, and trace_file, realtime_running,          *)
(* realtime_callback and realtime_thread are as they were.                *)
C11_GateDeniedNoEffect ==
    [][\A c \in Callers :
         (GateDenies /\ (Begins(c, "rt", "start") \/ Begins(c, "etw", "start")))
         => /\ cpc'[c] = "idle"
            /\ cret'[c] = IF call'[c].api = "rt" THEN "False" ELSE "None"
            /\ UNCHANGED <<realtime_running, realtime_callback, realtime_thread,
                           realtime_lock, trace_file, workerVars, osVars>>]_vars

(* With the gate denying, the second call of a run that uses both modes   *)
(* is a start_etw_capture; it returned None and nothing exists: no file,  *)
(* no session, no worker, no timer.                                       *)
C11_Witness ==
    \E c \in Callers :
        /\ GateDenies /\ ncalls = 2 /\ "rt" \in budget.apis
        /\ call[c].api = "etw" /\ call[c].op = "start" /\ call[c].id = 2
        /\ cpc[c] = "idle" /\ cret[c] = "None"
        /\ files = <<>> /\ ~session.active /\ timers = {}
        /\ \A w \in Workers : wpc[w] = "unborn"
        /\ trace_file[call[c].cap] = NoPath /\ ~realtime_running[call[c].cap]

(* C12: a stop_etw_capture call returns True or False; it returns False   *)
(* when no session of the engine's name is active, and True only when the *)
(* stop command exited 0, which is when it stopped the active session.    *)
C12_StopEtwNeverRaises ==
    [][\A c \in Callers :
         Begins(c, "etw", "stop")
         => /\ cpc'[c] = "idle"
            /\ cret'[c] \in {"True", "False"}
            /\ ~session.active => cret'[c] = "False" /\ session' = session
            /\ cret'[c] = "True" => session.active /\ ~session'.active
            /\ cret'[c] = "False" => session' = session]_vars

(* The third call of a run is a stop_etw_capture that returned False: the *)
(* session an earlier start_etw_capture created, its file still there, is *)
(* not active any more.                                                   *)
C12_Witness ==
    \E c \in Callers :
        /\ call[c].api = "etw" /\ call[c].op = "stop" /\ call[c].id = 3
        /\ cpc[c] = "idle" /\ cret[c] = "False"
        /\ ~session.active
        /\ \E p \in DOMAIN files : p[1] = "etw"

(* A real-time session is running: its worker is in the poll loop. *)
RunningPath(w) == IF InLoop(w) THEN wl[w].temp_trace ELSE NoPath

(* C13: no two real-time sessions that are running at the same time have  *)
(* the same temp file path.                                               *)
C13_DistinctPaths ==
    \A v, w \in Workers :
        (v # w /\ InLoop(v) /\ InLoop(w)) => RunningPath(v) # RunningPath(w)

(* C14: parse_etl_file never raises to its caller and what it returns is  *)
(* a list.  Called with a path that does not exist, it returns [] in that *)
(* very step without having read the file, built a decoder or run the     *)
(* conversion tool.  (A failing decoder, a missing etl-parser and a       *)
(* missing, failing or timed-out tracerpt are among the runs checked.)    *)
C14_ParseNeverRaises ==
    /\ [](presult # "raised")
    /\ [](ppc = "done" => presult = "returned" /\ DOMAIN plist = 1..Len(plist))
    /\ [][ppc = "idle" /\ ppc' # "idle" /\ disk[etl_file] = "absent"
            => /\ ppc' = "done"
               /\ presult' = "returned"
               /\ plist' = <<>>
               /\ plog' = {}
               /\ disk' = disk]_vars

(* The decoder failed on a file with events, after it had been built, and *)
(* the call returned.                                                     *)
C14_Witness ==
    /\ ppc = "done"
    /\ presult = "returned"
    /\ penv.reader = "ValueError"
    /\ "decoder" \in plog
    /\ pnext > 1

(* What parse_etw gives for an event: no fields when it has no parse_etw. *)
FieldsOf(e) == IF e.etw = "absent" THEN <<>> ELSE e.event_data

(* The event passes the decoder's provider filter and decoding it does    *)
(* not raise.                                                             *)
WellFormed(e) ==
    /\ IsUsbProvider(e.provider_name)
    /\ e.etw # "raise"
    /\ ExtractUrb(e, FieldsOf(e), 0) # <<>>

(* The positions, in file order, of the well-formed events among the      *)
(* first n events of the file.                                            *)
RECURSIVE Kept(_)
Kept(n) ==
    IF n = 0 THEN <<>>
    ELSE IF WellFormed(etl_events[n]) THEN Append(Kept(n - 1), n)
    ELSE Kept(n - 1)

(* list holds the records of the well-formed events among the first n, in *)
(* file order, each with the timestamp of its event or, for an event      *)
(* without one, a reading of the clock.                                   *)
RecordsOf(list, n) ==
    /\ Len(list) = Len(Kept(n))
    /\ \A k \in 1..Len(list) :
           LET e == etl_events[Kept(n)[k]]
           IN \E now \in 0..pclock : list[k] = ExtractUrb(e, FieldsOf(e), now)[1]

(* C15: an event whose decoding raises (in parse_etw or while the record  *)
(* is built) adds no record and does not end the batch: after every event *)
(* the list holds exactly the records of the well-formed USB-provider     *)
(* events handed over so far, in file order, and that list is returned    *)
(* when the file is exhausted.                                            *)
C15_MalformedSkipped ==
    /\ ppc = "events" => RecordsOf(purbs, pnext - 1)
    /\ (ppc = "done" /\ presult = "returned" /\ "decoder" \in plog
            /\ penv.reader = "ok")
       => pnext = Len(etl_events) + 1 /\ RecordsOf(plist, Len(etl_events))

(* A file of three events was parsed: the second one raised in decoding,  *)
(* the records of the first and the third were returned.                  *)
C15_Witness ==
    /\ ppc = "done" /\ presult = "returned"
    /\ Len(etl_events) = 3
    /\ WellFormed(etl_events[1])
    /\ IsUsbProvider(etl_events[2].provider_name)
    /\ ~WellFormed(etl_events[2])
    /\ WellFormed(etl_events[3])
    /\ Len(plist) = 2

(* The records produced so far by the call, and the returned ones. *)
Produced == purbs \o plist

SetupKeys == {"bmRequestType", "bRequest", "wValue", "wIndex", "wLength"}

(* C16: in every record the decoder produces, setup_packet holds the five *)
(* setup fields when urb_function is URB_FUNCTION_CONTROL_TRANSFER (8),   *)
(* and for every other function code, named or not, it is empty and       *)
(* request_type, request, value, index and length are 0.                  *)
C16_SetupPacketIffControl ==
    \A k \in 1..Len(Produced) :
        LET r == Produced[k]
        IN IF r.urb_function = URB_FUNCTION_CONTROL_TRANSFER
           THEN DOMAIN r.setup_packet = SetupKeys
           ELSE /\ DOMAIN r.setup_packet = {}
                /\ r.request_type = 0 /\ r.request = 0 /\ r.value = 0
                /\ r.index = 0 /\ r.length = 0

(* A record was returned for an event that carries the setup fields under *)
(* a function code that has no name: its setup packet is empty.           *)
C16_Witness ==
    /\ ppc = "done" /\ presult = "returned" /\ Len(plist) = 1
    /\ plist[1].urb_function \notin 0..(Len(URBFunction) - 1)
    /\ SetupKeys \subseteq DOMAIN etl_events[1].event_data
    /\ DOMAIN plist[1].setup_packet = {}

(* The buffer an event carries: its bytes, the bytes a hex string stands  *)
(* for, nothing when the event has no buffer or a string that is no hex.  *)
InputBuffer(e) == TransferBufferOf(FieldsOf(e)).v

(* The events the records of list come from, list being the records of   *)
(* the first n events.                                                    *)
EventOf(n, k) == etl_events[Kept(n)[k]]

(* While the events are handed over: the list built so far and the count *)
(* of events it comes from; after the return: the returned list.          *)
Decoded == IF ppc = "done" THEN Len(etl_events) ELSE pnext - 1
Listed == IF ppc = "done" THEN plist ELSE purbs

(* C17: the transfer_buffer of every record the decoder produces has at   *)
(* most 1024 bytes and is the first min(len, 1024) bytes of the buffer of *)
(* its event, unchanged.                                                  *)
C17_BufferIsPrefix ==
    (ppc = "events" \/ (ppc = "done" /\ presult = "returned" /\ penv.reader = "ok"))
    => \A k \in 1..Len(Listed) :
          LET stored == Listed[k].transfer_buffer
              input == InputBuffer(EventOf(Decoded, k))
          IN /\ Len(stored) <= TransferBufferLimit
             /\ Len(stored) = IF Len(input) < TransferBufferLimit
                               THEN Len(input) ELSE TransferBufferLimit
             /\ \A j \in 1..Len(stored) : stored[j] = input[j]

(* A record was returned for an event whose buffer is longer than 1024    *)
(* bytes: it holds 1024 of them.                                          *)
C17_Witness ==
    /\ ppc = "done" /\ presult = "returned" /\ Len(plist) = 1
    /\ Len(etl_events) = 1
    /\ Len(InputBuffer(etl_events[1])) > TransferBufferLimit
    /\ Len(plist[1].transfer_buffer) = TransferBufferLimit

(* C18: in every record whose endpoint_address a is in 0..255, the        *)
(* endpoint_direction is "IN" when bit 0x80 of a is set, which is when a  *)
(* is 128 or more, and "OUT" otherwise, whatever the other fields of the  *)
(* event are.                                                             *)
C18_DirectionFromAddress ==
    \A k \in 1..Len(Produced) :
        LET r == Produced[k]
        IN r.endpoint_address \in 0..255
           => r.endpoint_direction =
                 IF r.endpoint_address >= 128 THEN "IN" ELSE "OUT"

(* A record was returned for a control transfer that names its endpoint   *)
(* twice, EndpointAddress 0x81 and Endpoint 0x7E: address 0x81, IN.       *)
C18_Witness ==
    /\ ppc = "done" /\ presult = "returned" /\ Len(plist) = 1
    /\ plist[1].urb_function = URB_FUNCTION_CONTROL_TRANSFER
    /\ plist[1].endpoint_address = 129
    /\ "Endpoint" \in DOMAIN etl_events[1].event_data
    /\ etl_events[1].event_data["Endpoint"] = 126
    /\ plist[1].endpoint_direction = "IN"

UpperHexChars == "0123456789ABCDEF"

(* s is made of uppercase hexadecimal digits, one at least. *)
IsUpperHex(s) ==
    /\ Len(s) > 0
    /\ \A i \in 1..Len(s) : Contains(UpperHexChars, SubSeq(s, i, i))

(* The number the uppercase hexadecimal digits of s write. *)
RECURSIVE HexNumber(_)
HexNumber(s) ==
    IF Len(s) = 0 THEN 0
    ELSE 16 * HexNumber(SubSeq(s, 1, Len(s) - 1))
         + IndexOf(UpperHexChars, SubSeq(s, Len(s), Len(s))) - 1

(* name is prefix followed by text. *)
After(name, prefix) == SubSeq(name, Len(prefix) + 1, Len(name))
StartsWith(name, prefix) ==
    Len(name) >= Len(prefix) /\ SubSeq(name, 1, Len(prefix)) = prefix

Unmapped(c) == c \notin 0..(Len(URBFunction) - 1)

(* C19 as stated: for every function code c that is not in the table the  *)
(* name is "UNKNOWN_0x" followed by exactly 4 uppercase hexadecimal       *)
(* digits that write c.                                                   *)
C19_FourDigits ==
    \A k \in 1..Len(Produced) :
        LET c == Produced[k].urb_function
            name == Produced[k].urb_function_name
        IN Unmapped(c)
           => /\ StartsWith(name, "UNKNOWN_0x")
              /\ Len(After(name, "UNKNOWN_0x")) = 4
              /\ IsUpperHex(After(name, "UNKNOWN_0x"))
              /\ HexNumber(After(name, "UNKNOWN_0x")) = c

(* C19, amended: for every function code c that is not in the table the   *)
(* name is "UNKNOWN_0x" followed by c in uppercase hexadecimal filled     *)
(* with zeros to 4 characters: exactly 4 digits for c up to 0xFFFF, as    *)
(* many digits as c has above that, and for a negative c a minus sign     *)
(* followed by the digits of -c filled with zeros to 3.                   *)
C19_AtLeastFourCharacters ==
    \A k \in 1..Len(Produced) :
        LET c == Produced[k].urb_function
            name == Produced[k].urb_function_name
            text == After(name, "UNKNOWN_0x")
            digits == IF c < 0 THEN After(text, "-") ELSE text
        IN Unmapped(c)
           => /\ StartsWith(name, "UNKNOWN_0x")
              /\ c < 0 => StartsWith(text, "-")
              /\ IsUpperHex(digits)
              /\ HexNumber(digits) = (IF c < 0 THEN -c ELSE c)
              /\ Len(text) >= 4
              /\ Len(text) > 4 => SubSeq(digits, 1, 1) # "0"
              /\ (c >= 0 /\ c <= 65535) => Len(text) = 4

(* A record was returned for the function code 0x00FF, which is not in    *)
(* the table: its name is UNKNOWN_0x00FF.                                 *)
C19_Witness ==
    /\ ppc = "done" /\ presult = "returned" /\ Len(plist) = 1
    /\ plist[1].urb_function = 255
    /\ plist[1].urb_function_name = "UNKNOWN_0x00FF"

(* The status, masked to 32 bits, is not in the status table. *)
UnmappedStatus(st) ==
    \A e \in URBStatus : ~(e[1] = Mask32(st).hi /\ e[2] = Mask32(st).lo)

(* C20: for every status s whose value masked to 32 bits is not in the    *)
(* status table, negative ones and ones wider than 32 bits included, the  *)
(* name is "STATUS_0x" followed by the 8 uppercase hexadecimal digits of  *)
(* the masked value.                                                      *)
C20_MaskedEightDigits ==
    \A k \in 1..Len(Produced) :
        LET st == Produced[k].status
            name == Produced[k].status_name
            text == After(name, "STATUS_0x")
        IN UnmappedStatus(st)
           => /\ StartsWith(name, "STATUS_0x")
              /\ Len(text) = 8
              /\ IsUpperHex(text)
              /\ HexNumber(SubSeq(text, 1, 4)) = Mask32(st).hi
              /\ HexNumber(SubSeq(text, 5, 8)) = Mask32(st).lo

(* C20 for the statuses that are in 0..2^32-1 to begin with, where the    *)
(* masked value is the status itself: this much holds.                    *)
C20_InRangeEightDigits ==
    \A k \in 1..Len(Produced) :
        LET st == Produced[k].status
            name == Produced[k].status_name
            text == After(name, "STATUS_0x")
        IN (UnmappedStatus(st) /\ ~st.neg /\ st.hi < Limb)
           => /\ StartsWith(name, "STATUS_0x")
              /\ Len(text) = 8
              /\ IsUpperHex(text)
              /\ HexNumber(SubSeq(text, 1, 4)) = st.hi
              /\ HexNumber(SubSeq(text, 5, 8)) = st.lo

(* The check that fails first, in the order Windows, elevation, logman. *)
FirstFailing ==
    CASE ~is_windows -> "windows"
      [] is_windows /\ ~is_admin -> "admin"
      [] is_windows /\ is_admin /\ ~logman_available -> "logman"
      [] OTHER -> "none"

(* C21: is_available returns True exactly when the OS is Windows, the     *)
(* process is elevated and logman was found; when it returns False it has *)
(* logged one warning, that of the first check that fails in this order,  *)
(* and when it returns True none; it leaves the URBCapture, the workers,  *)
(* the session, the files and the timers as they were.  The gate of the   *)
(* two start operations logs the same warning.                            *)
C21_GateDecides ==
    [][\A c \in Callers :
         /\ Begins(c, "gate", "check")
            => /\ cpc'[c] = "idle"
               /\ cret'[c] = IF is_windows /\ is_admin /\ logman_available
                              THEN "True" ELSE "False"
               /\ UNCHANGED <<realtime_running, realtime_callback,
                              realtime_thread, realtime_lock, trace_file,
                              workerVars, osVars>>
         /\ (Begins(c, "gate", "check") \/ Begins(c, "rt", "start")
                \/ Begins(c, "etw", "start"))
            => warnings' = IF FirstFailing = "none" THEN warnings
                           ELSE Append(warnings, FirstFailing)]_vars

(* On a system that is not Windows, not elevated and without logman, the  *)
(* second call of a run is an is_available that returned False: each of   *)
(* the two calls logged the warning of the Windows check.                 *)
C21_Witness ==
    \E c \in Callers :
        /\ ~is_windows /\ ~is_admin /\ ~logman_available
        /\ call[c].api = "gate" /\ call[c].id = 2
        /\ cpc[c] = "idle" /\ cret[c] = "False"
        /\ warnings = <<"windows", "windows">>

(* The Timer that the start_etw_capture call number id started waits. *)
TimerOf(id) == {t \in timers : t.id = id}

Scheduled(id) == TimerOf(id) # {}

(* The create step of a start_etw_capture, and its being a success. *)
Creates(c) == cpc[c] = "es_create" /\ cpc'[c] # "es_create"

Succeeds(c) == Creates(c) /\ cpc'[c] = "idle" /\ cret'[c] = "path"

(* C22: the create step of a start_etw_capture that succeeds returns the  *)
(* path in that step, the session active; with a duration above 0 it has  *)
(* started exactly one Timer, for that duration, and with the duration 0  *)
(* none; no other step of a start_etw_capture, a failing create and the   *)
(* cleanup included, starts a Timer.  A Timer runs the stop after its     *)
(* duration has passed, not before, and it does run it; a stop not issued *)
(* by a caller or a worker is that of a Timer, so none follows a start    *)
(* with the duration 0.                                                   *)
C22_TimedStop ==
    /\ [][\A c \in Callers :
            /\ Succeeds(c)
               => /\ cpc'[c] = "idle"
                  /\ session'.active
                  /\ session'.owner = <<"caller", call[c].id>>
                  /\ timers' = IF call[c].dur > 0
                                THEN timers \cup {[id |-> call[c].id,
                                                   cap |-> call[c].cap,
                                                   after |-> call[c].dur,
                                                   left |-> call[c].dur]}
                                ELSE timers
                  /\ call[c].dur > 0 => ~Scheduled(call[c].id)
            /\ (cpc'[c] # cpc[c] /\ ~Succeeds(c)) => timers' = timers]_vars
    /\ [][\A id \in 1..MaxCalls :
            (Scheduled(id) /\ ~Scheduled(id)')
            => \A t \in TimerOf(id) : t.left = 0]_vars
    /\ [][(session' # session /\ cpc' = cpc /\ call' = call /\ wpc' = wpc)
           => \E id \in 1..MaxCalls : Scheduled(id) /\ ~Scheduled(id)']_vars
    /\ [](\A t \in timers : t.after > 0 /\ Cardinality(TimerOf(t.id)) = 1)
    /\ \A id \in 1..MaxCalls : Scheduled(id) ~> ~Scheduled(id)

(* The only call of a run, a start_etw_capture with a duration, returned  *)
(* the path; its Timer has run and the session is stopped.                *)
C22_Witness ==
    \E c \in Callers :
        /\ ncalls = 1
        /\ call[c].api = "etw" /\ call[c].op = "start" /\ call[c].dur > 0
        /\ cpc[c] = "idle" /\ cret[c] = "path"
        /\ timers = {}
        /\ ~session.active

(* ------------------- start_etw_capture: failed create ------------------ *)
FailsCreate(c) == cpc[c] = "es_create" /\ cpc'[c] = "es_cleanup"

LeavesCleanup(c) == cpc[c] = "es_cleanup" /\ cpc'[c] # "es_cleanup"

Owns(c) == session.active /\ session.owner = <<"caller", call[c].id>>

StopDeleteBeforeCreate(cmds) ==
    \A k \in 1..Len(cmds) :
        cmds[k] = "create"
        => k >= 3 /\ cmds[k - 2] = "stop" /\ cmds[k - 1] = "delete"

StopBeforeCreate(cmds) ==
    \A k \in 1..Len(cmds) :
        cmds[k] = "create" => k >= 2 /\ cmds[k - 1] = "stop"

(* C24: in start_etw_capture and in the worker's _start_etw_session every *)
(* create command comes after a stop and then a delete of the named       *)
(* session, run by the same call in that order.                           *)
C24_StopDeleteThenCreate ==
    /\ \A c \in Callers : StopDeleteBeforeCreate(call[c].cmds)
    /\ \A w \in Workers : StopDeleteBeforeCreate(wl[w].cmds)

(* What the two paths do: the worker runs stop, delete, create; the call  *)
(* of start_etw_capture runs stop, create; in both the create is run      *)
(* whatever became of the commands before it.                             *)
C24_AsCoded ==
    /\ [](/\ \A w \in Workers : StopDeleteBeforeCreate(wl[w].cmds)
          /\ \A c \in Callers : StopBeforeCreate(call[c].cmds))
    /\ [][/\ \A c \in Callers :
               (cpc[c] = "es_stop" /\ cpc'[c] # "es_stop")
               => cpc'[c] = "es_create"
          /\ \A w \in Workers :
               /\ (wpc[w] = "w_sess_stop" /\ wpc'[w] # "w_sess_stop")
                  => wpc'[w] = "w_sess_delete"
               /\ (wpc[w] = "w_sess_delete" /\ wpc'[w] # "w_sess_delete")
                  => wpc'[w] = "w_sess_create"]_vars

(* ------------------ _parse_etl_alternative: the output ----------------- *)
AltReturned == ppc = "done" /\ "tool" \in plog

(* C25: when _parse_etl_alternative has returned, the file tracerpt wrote *)
(* does not exist.                                                        *)
C25_ArtifactGone ==
    AltReturned => disk[xml_file] \notin {"xml", "partial"}

(* C25 as the code has it: on every exit path os.remove was called for an *)
(* xml_file that existed, so the file is there at the return exactly when *)
(* that os.remove failed; whatever tracerpt did (exit 0, non-zero exit,   *)
(* no output, not found, timeout), a file whose removal works is gone.    *)
C25_DeletionAttempted ==
    AltReturned
    => /\ disk[xml_file] # "absent" <=> ("remove" \in plog /\ penv.remove = "fail")
       /\ penv.remove = "ok" => \A p \in DiskPaths : disk[p] \notin {"xml", "partial"}
       /\ presult = "returned" /\ plist = <<>>

(* tracerpt timed out with part of its output written; the removal        *)
(* worked and the output is gone.                                         *)
C25_Witness ==
    /\ AltReturned
    /\ penv.tool = "timeout"
    /\ "remove" \in plog
    /\ xml_file = "usb_temp.xml"
    /\ disk[xml_file] = "absent"

(* -------------------------- the provider filter ------------------------ *)
YieldsRecord == ppc = "events" /\ Len(purbs') > Len(purbs)

(* C26: an event yields a record only if its provider name is one of the  *)
(* five names of usb_providers; every other event is rejected.            *)
C26_OnlyFixedProviders ==
    [][YieldsRecord => etl_events[pnext].provider_name \in usb_providers]_vars

(* The filter as coded: an event yields a record only if one of the five  *)
(* names occurs in its provider name, at any position.                    *)
C26_NameOccurs ==
    [][YieldsRecord => IsUsbProvider(etl_events[pnext].provider_name)]_vars

(* ------------------------- code-to-name resolution --------------------- *)
(* The event is of a USB provider, parse_etw gives its fields and its     *)
(* buffer can be sliced: nothing but its codes is left to drop it for.    *)
DecodableButForCodes(e) ==
    /\ IsUsbProvider(e.provider_name)
    /\ e.etw # "raise"
    /\ TransferBufferOf(FieldsOf(e)).t = "bytes"

(* C27: every record carries a name for its function code and one for its *)
(* status: the table name of a code in the function table (code 8 gives   *)
(* URB_FUNCTION_CONTROL_TRANSFER), the table name of a status whose value  *)
(* masked to 32 bits is in the status table (0 gives USBD_STATUS_SUCCESS), *)
(* a synthetic UNKNOWN_0x... or STATUS_0x... name for any other code; the  *)
(* same code has the same name in every record; and an event that is       *)
(* decodable but for its codes yields a record carrying those codes,       *)
(* whatever they are.                                                      *)
C27_ResolutionTotal ==
    /\ [](\A k \in 1..Len(Produced) :
            LET r == Produced[k]
                c == r.urb_function
                st == r.status
            IN /\ ~Unmapped(c) => r.urb_function_name = URBFunction[c + 1]
               /\ c = 8 => r.urb_function_name = "URB_FUNCTION_CONTROL_TRANSFER"
               /\ Unmapped(c)
                  => /\ StartsWith(r.urb_function_name, "UNKNOWN_0x")
                     /\ Len(r.urb_function_name) > Len("UNKNOWN_0x")
               /\ ~UnmappedStatus(st)
                  => \E e \in URBStatus :
                        /\ e[1] = Mask32(st).hi /\ e[2] = Mask32(st).lo
                        /\ r.status_name = e[3]
               /\ st = ZeroStatus => r.status_name = "USBD_STATUS_SUCCESS"
               /\ UnmappedStatus(st)
                  => /\ StartsWith(r.status_name, "STATUS_0x")
                     /\ Len(r.status_name) > Len("STATUS_0x")
               /\ \A j \in 1..Len(Produced) :
                     /\ Produced[j].urb_function = c
                        => Produced[j].urb_function_name = r.urb_function_name
                     /\ Produced[j].status = st
                        => Produced[j].status_name = r.status_name)
    /\ [][(ppc = "events" /\ pnext' = pnext + 1
              /\ DecodableButForCodes(etl_events[pnext]))
           => LET d == FieldsOf(etl_events[pnext])
              IN /\ Len(purbs') = Len(purbs) + 1
                 /\ purbs'[Len(purbs')].urb_function
                       = Get(d, "Function", "URBFunction", 0)
                 /\ purbs'[Len(purbs')].status
                       = Get(d, "Status", "USBDStatus", ZeroStatus)]_vars

(* The record of an event whose status, 0x1C0000005, is in the table only *)
(* once masked was returned under the table name, its function code, the  *)
(* default 0, under the first name of the function table.                 *)
C27_Witness ==
    /\ ppc = "done" /\ presult = "returned" /\ Len(plist) = 1
    /\ plist[1].status = [neg |-> FALSE, hi |-> 114688, lo |-> 5]
    /\ plist[1].status_name = "USBD_STATUS_INTERNAL_HC_ERROR"
    /\ plist[1].urb_function_name = "URB_FUNCTION_SELECT_CONFIGURATION"

(* ------------------------- the worker's poll --------------------------- *)
Polls(w) == wpc[w] = "w_poll" /\ wpc'[w] # "w_poll"

Grown(w) ==
    /\ Exists(wl[w].temp_trace)
    /\ GetSize(wl[w].temp_trace) > wl[w].last_size

EndsPass(w) == wpc[w] \in {"w_parse", "w_deliver"} /\ wpc'[w] = "w_loop"

(* What a poll and a pass leave recorded, whatever the interval test is:  *)
(* a poll that does not parse changes no local; last_size changes only    *)
(* when a pass ends, to the size the poll of that pass saw; the time      *)
(* since the last parse starts again only at a poll that parses.          *)
RecordedOnlyByParse(w) ==
    /\ (Polls(w) /\ wpc'[w] # "w_parse")
       => wpc'[w] = "w_loop" /\ wl'[w] = wl[w]
    /\ (Polls(w) /\ wpc'[w] = "w_parse")
       => /\ wl'[w].cur_size = GetSize(wl[w].temp_trace)
          /\ wl'[w].last_size = wl[w].last_size
    /\ (InLoop(w) /\ InLoop(w)' /\ wl'[w].last_size # wl[w].last_size)
       => EndsPass(w) /\ wl'[w].last_size = wl[w].cur_size
    /\ (InLoop(w) /\ InLoop(w)' /\ wl'[w].waited < wl[w].waited)
       => (Polls(w) /\ wpc'[w] = "w_parse")

(* C28: a poll of the worker hands the file to parse_etl_file if and only *)
(* if the file exists, is larger than at the last parse, and at least     *)
(* ReparseInterval seconds have passed since the last parse (since the    *)
(* session was started, for the first); the recorded size and time change *)
(* only with a parse.                                                     *)
C28_ParseAtInterval ==
    [][\A w \in Workers :
          /\ Polls(w)
             => (wpc'[w] = "w_parse"
                 <=> (Grown(w) /\ wl[w].waited >= ReparseInterval))
          /\ RecordedOnlyByParse(w)]_vars

(* C28 with the test of the code: more than ReparseInterval seconds have  *)
(* passed; at exactly ReparseInterval seconds the file is not parsed.     *)
C28_ParseAfterInterval ==
    [][\A w \in Workers :
          /\ Polls(w)
             => (wpc'[w] = "w_parse"
                 <=> (Grown(w) /\ wl[w].waited > ReparseInterval))
          /\ RecordedOnlyByParse(w)]_vars

(* A worker is at its second parse: the file has grown since the first.   *)
C28_Witness ==
    \E w \in Workers :
        /\ wpc[w] = "w_parse"
        /\ wl[w].npass = 1
        /\ wl[w].last_size > 0
        /\ wl[w].cur_size > wl[w].last_size

(* ------------------------ one worker per capture ----------------------- *)
LoopingOf(i) == {w \in Workers : wcap[w] = i /\ InLoop(w)}

(* C29: whatever starts and stops were called on a URBCapture, at most    *)
(* one of its workers is in the poll loop at a time, and a worker whose   *)
(* capture was stopped does not pass the loop test again.                 *)
C29_OneWorkerLoops ==
    /\ [](\A i \in Captures : Cardinality(LoopingOf(i)) <= 1)
    /\ [][\A w \in Workers :
            (wl[w].cancelled /\ wpc[w] = "w_loop") => wpc'[w] # "w_poll"]_vars

(* ------------------------ deliveries after a stop ---------------------- *)
(* A stop_realtime_capture that cleared the flag of worker w's capture    *)
(* and joined w has returned True.                                        *)
StopReturned(w) ==
    /\ wl[w].cancelled
    /\ \E c \in Callers :
          /\ RtStop(c) /\ cpc[c] = "idle" /\ cret[c] = "True"
          /\ call[c].cap = wcap[w] /\ call[c].thr = w

(* C30: once the stop_realtime_capture of a capture has returned True,    *)
(* the worker of that capture invokes the sink no more.                   *)
C30_NoDeliveryAfterStop ==
    [][\A w \in Workers : StopReturned(w) => sent'[w] = sent[w]]_vars

(* ---------------------------- the stale Timer -------------------------- *)
Fires(id) == Scheduled(id) /\ ~Scheduled(id)'

(* C31: the Timer of a timed start_etw_capture stops no session but the   *)
(* one that call started: when it fires and a session ends with it, the   *)
(* session is that of its call.                                           *)
C31_TimerStopsOwnSession ==
    [][\A id \in 1..MaxCalls :
          (Fires(id) /\ session' # session)
          => session.owner = <<"caller", id>>]_vars

(* --------------------------- the input file ---------------------------- *)
(* C32: no step of parse_etl_file deletes, overwrites or changes the file *)
(* it was given, whatever its name.                                       *)
C32_InputUntouched ==
    [][disk'[etl_file] = disk[etl_file]]_vars

(* For a path that contains ".etl" the output path differs from the input *)
(* path and the input file is left as it was.                             *)
C32_InputUntouchedWhenNamedEtl ==
    [][Contains(etl_file, ".etl")
        => XmlFileOf(etl_file) # etl_file /\ disk'[etl_file] = disk[etl_file]]_vars

(* --------------------- one delivery for one event ---------------------- *)
(* C33: however many passes parse it, an event of the trace file causes   *)
(* at most one invocation of the sink, an event without timestamp too: no *)
(* two deliveries of a worker are of the same event of its file.          *)
C33_OncePerEvent ==
    \A w \in Workers :
        \A m, n \in DOMAIN sent[w] :
            sent[w][m].urb.idx = sent[w][n].urb.idx => m = n

(* For the events that carry a timestamp the key is the same in every     *)
(* pass: no two deliveries of a worker are of the same stamped event.     *)
C33_OncePerStampedEvent ==
    \A w \in Workers :
        \A m, n \in DOMAIN sent[w] :
            (/\ sent[w][m].urb.idx = sent[w][n].urb.idx
             /\ sent[w][m].urb.ts = EventTs
             /\ sent[w][n].urb.ts = EventTs)
            => m = n

(* ------------------------- growth is not lost -------------------------- *)
Waiting(w) == wpc[w] \in {"w_loop", "w_poll"}

(* Record j of the worker's file has reached the sink, or a record with   *)
(* its key has.                                                           *)
Reached(w, j) ==
    LET e == files[wl[w].temp_trace][j]
    IN \E n \in DOMAIN sent'[w] :
          \/ sent'[w][n].urb.idx = j
          \/ /\ sent'[w][n].urb.k = e.k
             /\ e.ts = NoTs \/ sent'[w][n].urb.ts = e.ts

(* The file the pass read is still there with the records the poll saw. *)
FileKept(w) ==
    /\ Exists(wl[w].temp_trace)
    /\ GetSize(wl[w].temp_trace) >= wl[w].cur_size

(* C34: a worker that waits with its file larger than at the last parse,  *)
(* its capture running, comes to parse it; and when the pass that parse   *)
(* began ends, every record the file held has reached the sink, itself or *)
(* as the duplicate of one that has.                                      *)
C34_GrowthReachesSink ==
    /\ \A w \in Workers :
          (Waiting(w) /\ Grown(w))
          ~> (wpc[w] = "w_parse" \/ ~InLoop(w) \/ ~realtime_running[wcap[w]])
    /\ [][\A w \in Workers :
            (EndsPass(w) /\ FileKept(w))
            => \A j \in 1..wl[w].cur_size : Reached(w, j)]_vars

(* What holds: the worker does come to parse the grown file, and a pass   *)
(* whose parse returned records ends with all of them at the sink.        *)
C34_GrowthParsed ==
    /\ \A w \in Workers :
          (Waiting(w) /\ Grown(w))
          ~> (wpc[w] = "w_parse" \/ ~InLoop(w) \/ ~realtime_running[wcap[w]])
    /\ [][\A w \in Workers :
            (EndsPass(w) /\ wpc[w] = "w_deliver" /\ FileKept(w))
            => \A j \in 1..wl[w].cur_size : Reached(w, j)]_vars

(* --------------------------- the degraded path ------------------------- *)
InAlt == ppc \in {"alt_run", "alt_xml", "alt_finally"}

(* C35: with etl-parser not importable parse_etl_file goes the tracerpt   *)
(* way and returns the empty list whatever tracerpt does (exit 0 with its *)
(* output, non-zero exit, no output, not found, timeout): no decoder is   *)
(* built, no record is produced on the way, and the output of a tracerpt  *)
(* that succeeded is read without anything of it being returned.          *)
C35_DegradedReturnsEmpty ==
    /\ [](InAlt => ~penv.parser /\ purbs = <<>> /\ "decoder" \notin plog)
    /\ [](AltReturned
           => /\ ~penv.parser
              /\ presult = "returned" /\ plist = <<>>
              /\ "decoder" \notin plog)
    /\ [][/\ (ppc = "import" /\ ~penv.parser) => ppc' = "alt_run"
          /\ ppc' = "alt_xml"
                => penv.tool \in {"ok", "nooutput"} /\ disk'[xml_file] # "absent"
          /\ (InAlt /\ ppc' = "done") => plist' = <<>> /\ presult' = "returned"]_vars

(* tracerpt converted a file that holds a well-formed USB event; the      *)
(* empty list was returned.                                               *)
C35_Witness ==
    /\ AltReturned
    /\ penv.tool = "ok"
    /\ Len(etl_events) > 0 /\ WellFormed(etl_events[1])
    /\ presult = "returned" /\ plist = <<>>

(* ------------------------------ vid and pid ---------------------------- *)
(* marker stands at position i of d and nowhere before. *)
FirstAt(d, marker, i) ==
    /\ i + Len(marker) - 1 <= Len(d)
    /\ SubSeq(d, i, i + Len(marker) - 1) = marker
    /\ \A j \in 1..(i - 1) : SubSeq(d, j, j + Len(marker) - 1) # marker

Occurs(d, marker) == \E i \in 1..Len(d) : FirstAt(d, marker, i)

(* field is what d holds behind position i + 3, cut after n characters. *)
Follows(d, i, field, n) ==
    /\ Len(field) <= n
    /\ i + 3 + Len(field) <= Len(d)
    /\ field = SubSeq(d, i + 4, i + 3 + Len(field))

(* C36 as stated: in every record vid is the 4 characters behind the first *)
(* VID_ of device_id and pid the 4 characters behind the first PID_, and   *)
(* a field whose marker is absent is empty.                                *)
C36_FourAfterMarker ==
    \A k \in 1..Len(Produced) :
        LET r == Produced[k]
            d == r.device_id
        IN /\ \A i \in 1..Len(d) :
                 /\ FirstAt(d, "VID_", i)
                    => Len(r.vid) = 4 /\ Follows(d, i, r.vid, 4)
                 /\ FirstAt(d, "PID_", i)
                    => Len(r.pid) = 4 /\ Follows(d, i, r.pid, 4)
           /\ ~Occurs(d, "VID_") => r.vid = ""
           /\ ~Occurs(d, "PID_") => r.pid = ""

(* C36 as coded: in every record vid is the 4 characters behind the first *)
(* VID_ of device_id, or all that follow it when fewer than 4 do, and pid  *)
(* the same for the first PID_; a field whose marker is absent is empty,   *)
(* whatever the other field is; and an event that is decodable but for its *)
(* device id yields a record carrying that device id.                      *)
C36_UpToFourAfterMarker ==
    /\ [](\A k \in 1..Len(Produced) :
            LET r == Produced[k]
                d == r.device_id
            IN /\ \A i \in 1..Len(d) :
                     /\ FirstAt(d, "VID_", i)
                        => /\ Follows(d, i, r.vid, 4)
                           /\ Len(r.vid) = 4 \/ i + 3 + Len(r.vid) = Len(d)
                     /\ FirstAt(d, "PID_", i)
                        => /\ Follows(d, i, r.pid, 4)
                           /\ Len(r.pid) = 4 \/ i + 3 + Len(r.pid) = Len(d)
               /\ ~Occurs(d, "VID_") => r.vid = ""
               /\ ~Occurs(d, "PID_") => r.pid = "")
    /\ [][(ppc = "events" /\ pnext' = pnext + 1
              /\ DecodableButForCodes(etl_events[pnext]))
          => /\ YieldsRecord
             /\ purbs'[Len(purbs')].device_id
                  = Get(FieldsOf(etl_events[pnext]), "DeviceId", "DeviceID", "")]_vars

(* The record of an event whose device id ends two characters behind VID_ *)
(* and has no PID_ was returned: vid holds the two, pid is empty.          *)
C36_Witness ==
    /\ ppc = "done" /\ presult = "returned" /\ Len(plist) = 1
    /\ plist[1].device_id = "USB/VID_04"
    /\ plist[1].vid = "04"
    /\ plist[1].pid = ""
====
